---- MODULE Spec2Model ----
(***************************************************************************)
(* Reviewer-assignment engine of pr_reviewer_service.                      *)
(*                                                                         *)
(* The persisted state is the four relations of the schema (teams, users,  *)
(* pull_requests, review_assignments).  Every service operation is a       *)
(* sequence of data-access calls; a call made with the operation's pgx.Tx  *)
(* reads and writes through the transaction (committed rows plus the       *)
(* transaction's own uncommitted writes, PostgreSQL READ COMMITTED), a     *)
(* call made with querier(nil) goes to the pool and sees committed rows    *)
(* only.  Each data-access call is one step of the operation.              *)
(***************************************************************************)
EXTENDS Integers, Sequences, FiniteSets, TLC

\* ------------------------------------------------------------------ bounds
\* pull-request ids handed out by uuid.New()
MaxPRs == 2
\* operations started in one behaviour
MaxOps == 3
\* largest limit FindReviewCandidates is called with on its own
MaxLimit == 3

\* team_service.go: const maxReviewers
maxReviewers == 2

\* ---------------------------------------------------------------- universe
\* user ids; "u5" is an id no user row has, "" is the empty request field
UserIds == {"u1", "u2", "u3", "u4", "u5"}
\* team names; "t3" names no team
TeamIds == {"t1", "t2", "t3"}
PrIds == 1..MaxPRs
Procs == {1, 2}

StatusOpen == "OPEN"
StatusMerged == "MERGED"

VARIABLES
    db,     \* committed rows: [teams, users, prs, ra]
    proc,   \* per worker: the operation in flight, its position, locals and transaction
    last,   \* the operation that returned last: its arguments and result
    nops    \* operations started so far

vars == <<db, proc, last, nops>>

\* ------------------------------------------------------------ transactions
\* The uncommitted writes of one pgx.Tx.
EmptyTx ==
    [ ins    |-> {},                                \* review_assignments rows inserted
      del    |-> {},                                \* review_assignments rows deleted
      uact   |-> [u \in UserIds |-> "keep"],        \* users.is_active written: "on" / "off"
      uteam  |-> [u \in UserIds |-> "keep"],        \* users.team_id written
      toff   |-> {},                                \* teams.is_active set to false
      prins  |-> {},                                \* pull_requests rows inserted: <<id, author>>
      merged |-> {},                                \* pull_requests rows set to MERGED
      tnew   |-> {},                                \* teams rows inserted (active by default)
      unew   |-> {} ]                               \* users rows inserted: <<username, team>>

\* What a statement run through transaction tx sees: the committed rows with
\* the transaction's own writes applied.  CommitTx makes exactly this the
\* committed state.
TxView(d, tx) ==
    [ teams |-> [t \in TeamIds |->
                    IF t \in tx.toff THEN [d.teams[t] EXCEPT !.active = FALSE]
                    ELSE IF t \in tx.tnew THEN [d.teams[t] EXCEPT !.active = TRUE, !.exists = TRUE]
                    ELSE d.teams[t]],
      users |-> [u \in UserIds |->
                    LET row == IF \E r \in tx.unew : r[1] = u
                               THEN [d.users[u] EXCEPT
                                        !.active = TRUE, !.exists = TRUE,
                                        !.team = (CHOOSE r \in tx.unew : r[1] = u)[2]]
                               ELSE d.users[u]
                    IN  [ active |-> IF tx.uact[u] = "keep" THEN row.active
                                     ELSE tx.uact[u] = "on",
                          exists |-> row.exists,
                          team   |-> IF tx.uteam[u] = "keep" THEN row.team ELSE tx.uteam[u] ]],
      prs   |-> [p \in PrIds |->
                    IF \E r \in tx.prins : r[1] = p
                    THEN [ exists |-> TRUE,
                           author |-> (CHOOSE r \in tx.prins : r[1] = p)[2],
                           status |-> IF p \in tx.merged THEN StatusMerged ELSE StatusOpen ]
                    ELSE IF p \in tx.merged /\ d.prs[p].exists
                         THEN [d.prs[p] EXCEPT !.status = StatusMerged]
                         ELSE d.prs[p]],
      ra    |-> (d.ra \ tx.del) \cup tx.ins ]

\* querier(nil): the pool, which sees committed rows only
Pool(d, tx) == d

\* -------------------------------------------------------------- entities
\* entities.go: PullRequest.IsOpen
IsOpen(pr) == pr.status # StatusMerged

\* variant: inactive users and teams can be moved as well
CanBeMovedAlways(x) == TRUE

\* entities.go: User.CanBeMoved / Team.CanBeMoved
CanBeMoved(x) == x.active

Min(a, b) == IF a < b THEN a ELSE b

\* every order in which a query without ORDER BY may return the rows S
Orders(S) ==
    { s \in [1..Cardinality(S) -> S] : \A i, j \in 1..Cardinality(S) : i # j => s[i] # s[j] }

\* ------------------------------------------------------- repository: reads
\* v is what the call's querier sees (the pool's committed rows or a TxView).

\* variant: a missing row is not reported
UserFoundAlways(v, id) == id \in UserIds

\* GetUserWithTeam finds a row (pgx.ErrNoRows otherwise -> ErrNotFound)
UserFound(v, id) == id \in UserIds /\ v.users[id].exists

\* GetTeamByName / GetTeamByID find a row
TeamFound(v, t) == t \in TeamIds /\ v.teams[t].exists

\* GetPRByID finds a row
PRFound(v, id) == id \in PrIds /\ v.prs[id].exists

\* pr.sql GetReviewersForPR: users joined to the PR's assignment rows
GetReviewers(v, pr) == { u \in UserIds : <<pr, u>> \in v.ra /\ v.users[u].exists }

\* variant: the query returns no row
GetOpenPRsByReviewerNone(v, u) == {}

\* pr.sql GetPRsForReviewer, as called by GetOpenPRsByReviewer: every pull
\* request the user has an assignment row on (the query has no status filter)
GetOpenPRsByReviewer(v, u) == { p \in PrIds : <<p, u>> \in v.ra /\ v.prs[p].exists }

\* variant: the query counts rows of OPEN pull requests only
GetReviewStatsOpenOnly(v) ==
    { <<u, Cardinality({ p \in PrIds : <<p, u>> \in v.ra /\ v.prs[p].status = StatusOpen })>> :
      u \in { r[2] : r \in { x \in v.ra : v.prs[x[1]].status = StatusOpen } } }

\* pr.sql GetReviewStats: SELECT user_id, COUNT(*) FROM review_assignments
\* GROUP BY user_id -- one item <<user_id, review_count>> per user with a row
GetReviewStats(v) ==
    { <<u, Cardinality({ p \in PrIds : <<p, u>> \in v.ra })>> : u \in { r[2] : r \in v.ra } }

\* pr.sql CountOpenReviewsByUser / CountMergedReviewsByUser: pull_requests
\* joined to the user's rows, WHERE pr.status = $status
CountReviewsByUser(v, u, status) ==
    Cardinality({ p \in PrIds : /\ v.prs[p].exists
                                /\ <<p, u>> \in v.ra
                                /\ v.prs[p].status = status })

\* variant: the WHERE clause without u.user_id != author
EligibleWithAuthor(v, teamID, authorID, excludeIDs) ==
    { u \in UserIds : /\ v.users[u].exists
                      /\ v.users[u].team = teamID
                      /\ v.users[u].active
                      /\ u \notin excludeIDs }

\* variant: the WHERE clause without u.team_id = $1
EligibleAnyTeam(v, teamID, authorID, excludeIDs) ==
    { u \in UserIds : /\ v.users[u].exists
                      /\ v.users[u].active
                      /\ u # authorID
                      /\ u \notin excludeIDs }

\* variant: the WHERE clause without u.user_id != ALL($3)
EligibleWithExcluded(v, teamID, authorID, excludeIDs) ==
    { u \in UserIds : /\ v.users[u].exists
                      /\ v.users[u].team = teamID
                      /\ v.users[u].active
                      /\ u # authorID }

\* pr.sql FindReplacementCandidates, the WHERE clause: the eligible pool
Eligible(v, teamID, authorID, excludeIDs) ==
    { u \in UserIds : /\ v.users[u].exists
                      /\ v.users[u].team = teamID
                      /\ v.users[u].active
                      /\ u # authorID
                      /\ u \notin excludeIDs }

\* variant: the query without its LIMIT
FindReviewCandidatesNoLimit(v, teamID, authorID, excludeIDs, limit) ==
    {Eligible(v, teamID, authorID, excludeIDs)}

\* FindReviewCandidates: ORDER BY random() LIMIT $4 -- every result the draw can give
FindReviewCandidates(v, teamID, authorID, excludeIDs, limit) ==
    LET E == Eligible(v, teamID, authorID, excludeIDs)
        n == IF limit <= 0 THEN 0 ELSE Min(limit, Cardinality(E))
    IN  { C \in SUBSET E : Cardinality(C) = n }

\* ------------------------------------------------------ repository: writes
\* Each takes the committed rows d and the transaction tx and gives the
\* transaction after the statement; the ...OK predicate is "no SQL error".

\* variant: review_assignments without its primary key
AddReviewerOKNoKey(d, tx, pr, u) ==
    LET v == TxView(d, tx)
    IN  /\ PRFound(v, pr)
        /\ UserFound(v, u)

\* AddReviewerToPR succeeds: both foreign keys resolve and the primary key
\* (pr_id, user_id) is free
AddReviewerOK(d, tx, pr, u) ==
    LET v == TxView(d, tx)
    IN  /\ PRFound(v, pr)
        /\ UserFound(v, u)
        /\ <<pr, u>> \notin v.ra

\* AssignReviewers: one AddReviewerToPR per id, any error -> ErrInternalError
AssignReviewersOK(d, tx, pr, ids) == \A u \in ids : AddReviewerOK(d, tx, pr, u)

\* variant: the loop inserts nothing
AssignReviewersNothing(tx, pr, ids) == tx

AssignReviewers(tx, pr, ids) ==
    [tx EXCEPT !.del = @ \ {<<pr, u>> : u \in ids},
               !.ins = @ \cup {<<pr, u>> : u \in (ids \ {x \in ids : <<pr, x>> \in tx.del})}]

\* variant: the DELETE matches no row
RemoveReviewerNothing(d, tx, pr, u) == tx

\* RemoveReviewerFromPR: DELETE ... WHERE pr_id = $1 AND user_id = $2 (no row is no error)
RemoveReviewer(d, tx, pr, u) ==
    IF <<pr, u>> \in tx.ins THEN [tx EXCEPT !.ins = @ \ {<<pr, u>>}]
    ELSE IF <<pr, u>> \in d.ra THEN [tx EXCEPT !.del = @ \cup {<<pr, u>>}]
    ELSE tx

\* pr.sql CreatePR: INSERT INTO pull_requests (status defaults to OPEN)
RepoCreatePR(tx, id, authorID) == [tx EXCEPT !.prins = @ \cup {<<id, authorID>>}]

\* variant: the UPDATE without its WHERE clause
RepoMergePRAll(tx, id) == [tx EXCEPT !.merged = PrIds]

\* variant: the merge deletes the assignment rows of the pull request
RepoMergePRDroppingRows(tx, id) ==
    [tx EXCEPT !.merged = @ \cup {id}, !.del = @ \cup {<<id, u>> : u \in UserIds}]

\* pr.sql MergePR: UPDATE pull_requests SET status = 'MERGED' WHERE pr_id = $1
RepoMergePR(tx, id) == [tx EXCEPT !.merged = @ \cup {id}]

\* user.sql SetUserActiveStatus
RepoSetUserActiveStatus(tx, u, isActive) ==
    [tx EXCEPT !.uact[u] = IF isActive THEN "on" ELSE "off"]

\* user.sql MoveUserToTeam
RepoMoveUserToTeam(tx, u, t) == [tx EXCEPT !.uteam[u] = t]

\* user.sql UpdateUser: SET username = $2, team_id = $3, is_active = $4
RepoUpdateUser(tx, u, t, isActive) ==
    [tx EXCEPT !.uact[u] = IF isActive THEN "on" ELSE "off", !.uteam[u] = t]

\* team.sql DeactivateTeam
RepoDeactivateTeam(tx, t) == [tx EXCEPT !.toff = @ \cup {t}]

\* variant: the UPDATE returns every member of the team
DeactivatedIDsAll(d, tx, t) ==
    LET v == TxView(d, tx)
    IN  { u \in UserIds : v.users[u].exists /\ v.users[u].team = t }

\* user.sql DeactivateUsersByTeam: the ids the UPDATE returns (members that were active)
DeactivatedIDs(d, tx, t) ==
    LET v == TxView(d, tx)
    IN  { u \in UserIds : v.users[u].exists /\ v.users[u].team = t /\ v.users[u].active }

DeactivateUsersByTeam(d, tx, t) ==
    [tx EXCEPT !.uact = [u \in UserIds |->
                            IF u \in DeactivatedIDs(d, tx, t) THEN "off" ELSE tx.uact[u]]]

\* ------------------------------------------------------- operations in flight
\* The arguments of a call (fields an operation does not take keep their default).
Arg(name, pr, user, team, active) ==
    [active |-> active, team |-> team, pr |-> pr, name |-> name, user |-> user]

NoArg == Arg("", 0, "", "", FALSE)

\* The locals of an operation.
NoLoc ==
    [ users  |-> <<>>,    \* userIDs still to visit (cascade)
      team   |-> "",      \* author.TeamID / team.ID
      prs    |-> <<>>,    \* prs still to visit for the current user (cascade)
      author |-> "",      \* pr.AuthorID
      status |-> "",      \* pr.Status as read
      revs   |-> {},      \* pr.Reviewers / currentReviewers as read
      cands  |-> {},      \* candidates
      count  |-> 0,       \* reassignedCount
      ndeact |-> 0,       \* len(deactivatedUserIDs)
      fetched |-> {},     \* currentReviewers as GetReviewers returned them after the removal
      excludeUserIDs |-> {},  \* FindReviewCandidates called on its own: excludeUserIDs
      atMost |-> 0,           \* FindReviewCandidates called on its own: limit
      userNames |-> <<>> ]    \* CreateTeam: userNames as passed

\* What an operation returns next to its error.
NoRet == [status |-> "", revs |-> {}, count |-> 0, ndeact |-> 0, new |-> "", stats |-> {}]

Idle ==
    [ tx |-> EmptyTx, op |-> "none", pc |-> "idle", arg |-> NoArg, loc |-> NoLoc,
      began |-> FALSE, committed |-> FALSE, err |-> "", at |-> "", ret |-> NoRet ]

Start(op, arg) == [Idle EXCEPT !.op = op, !.pc = "start", !.arg = arg]

\* one successor: the committed rows and the operation's state
Succ(d, ps) == {[db |-> d, ps |-> ps]}

Goto(d, ps, pc) == Succ(d, [ps EXCEPT !.pc = pc])

\* variant: the deferred call commits instead of rolling back
FailCommitting(d, ps, kind) ==
    {[db |-> TxView(d, ps.tx),
      ps |-> [ps EXCEPT !.pc = "done", !.err = kind, !.at = ps.pc, !.tx = EmptyTx]]}

\* variant: no deferred RollbackTx, the transaction stays open after the return
FailLeavingOpen(d, ps, kind) ==
    Succ(d, [ps EXCEPT !.pc = "done", !.err = kind, !.at = ps.pc])

\* return err: the deferred RollbackTx discards the transaction's writes
\* (after a commit it is a no-op, pgx.ErrTxClosed)
Fail(d, ps, kind) ==
    Succ(d, [ps EXCEPT !.pc = "done", !.err = kind, !.at = ps.pc, !.tx = EmptyTx])

\* variant: after a failed call the rollback keeps the user flags written so far
FaultKeepingFlags(d, ps) ==
    {[db |-> TxView(d, [EmptyTx EXCEPT !.uact = ps.tx.uact]),
      ps |-> [ps EXCEPT !.pc = "done", !.err = "Internal", !.at = ps.pc, !.tx = EmptyTx]]}

\* the data-access call at this step fails (storage error, context cancelled):
\* the repository maps it to ErrInternalError, BeginTx/CommitTx return it raw
Fault(d, ps) == Fail(d, ps, "Internal")

\* s.tx.BeginTx
BeginTx(d, ps, next) ==
    Fault(d, ps) \cup Succ(d, [ps EXCEPT !.pc = next, !.began = TRUE])

\* variant: a commit that reports an error has applied the writes
CommitTxApplying(d, ps, next) ==
    {[db |-> TxView(d, ps.tx),
      ps |-> [ps EXCEPT !.pc = "done", !.err = "Internal", !.at = ps.pc, !.tx = EmptyTx]]}
    \cup Succ(TxView(d, ps.tx), [ps EXCEPT !.pc = next, !.tx = EmptyTx, !.committed = TRUE])

\* s.tx.CommitTx: the transaction's view becomes the committed rows
CommitTx(d, ps, next) ==
    Fault(d, ps)
    \cup Succ(TxView(d, ps.tx), [ps EXCEPT !.pc = next, !.tx = EmptyTx, !.committed = TRUE])

\* return ..., nil
Return(d, ps, ret) == Succ(d, [ps EXCEPT !.pc = "done", !.ret = ret, !.tx = EmptyTx])

\* ------------------------------------------------ PullRequestService.CreatePR
\* arg: name, user (authorID), pr (the id uuid.New() gives)
CreatePRStep(d, ps) ==
    LET a == ps.arg
        l == ps.loc
    IN  CASE ps.pc = "start" ->
               \* validation, then userRepo.GetUserByID (pool)
               IF a.name = "" \/ a.user = "" THEN Fail(d, ps, "Validation")
               ELSE Fault(d, ps) \cup
                    ( IF ~UserFound(d, a.user) THEN Fail(d, ps, "NotFound")
                      ELSE Succ(d, [ps EXCEPT !.pc = "begin",
                                              !.loc.team = d.users[a.user].team]) )
          [] ps.pc = "begin" -> BeginTx(d, ps, "insert")
          [] ps.pc = "insert" ->
               \* prRepo.CreatePR (tx): unique violation -> ErrPRExists,
               \* foreign-key violation -> ErrNotFound
               Fault(d, ps) \cup
               ( IF PRFound(TxView(d, ps.tx), a.pr) THEN Fail(d, ps, "PRExists")
                 ELSE IF ~UserFound(TxView(d, ps.tx), a.user) THEN Fail(d, ps, "NotFound")
                 ELSE Succ(d, [ps EXCEPT !.pc = "find",
                                         !.tx = RepoCreatePR(ps.tx, a.pr, a.user)]) )
          [] ps.pc = "find" ->
               \* userRepo.FindReviewCandidates (pool), limit maxReviewers
               Fault(d, ps) \cup
               { [db |-> d,
                  ps |-> [ps EXCEPT !.pc = IF C = {} THEN "commit" ELSE "assign",
                                    !.loc.cands = C]] :
                 C \in FindReviewCandidates(Pool(d, ps.tx), l.team, a.user, {}, maxReviewers) }
          [] ps.pc = "assign" ->
               \* prRepo.AssignReviewers (tx)
               Fault(d, ps) \cup
               ( IF AssignReviewersOK(d, ps.tx, a.pr, l.cands)
                 THEN Succ(d, [ps EXCEPT !.pc = "commit",
                                         !.tx = AssignReviewers(ps.tx, a.pr, l.cands)])
                 ELSE Fail(d, ps, "Internal") )
          [] ps.pc = "commit" -> CommitTx(d, ps, "return")
          [] ps.pc = "return" ->
               Return(d, ps, [NoRet EXCEPT !.revs = l.cands, !.status = StatusOpen])

\* ------------------------------------------------- PullRequestService.MergePR
\* arg: pr
MergePRStep(d, ps) ==
    LET a == ps.arg
    IN  CASE ps.pc = "start" ->
               \* prRepo.GetPRByID (pool), then pr.IsOpen
               Fault(d, ps) \cup
               ( IF ~PRFound(d, a.pr) THEN Fail(d, ps, "NotFound")
                 ELSE IF ~IsOpen(d.prs[a.pr]) THEN Fail(d, ps, "PRMerged")
                 ELSE Goto(d, ps, "begin") )
          [] ps.pc = "begin" -> BeginTx(d, ps, "merge")
          [] ps.pc = "merge" ->
               \* prRepo.MergePR (tx): the UPDATE, then GetReviewersForPR (tx)
               Fault(d, ps) \cup
               ( IF ~PRFound(TxView(d, ps.tx), a.pr) THEN Fail(d, ps, "NotFound")
                 ELSE Succ(d, [ps EXCEPT
                         !.pc = "commit",
                         !.tx = RepoMergePR(ps.tx, a.pr),
                         !.loc.revs = GetReviewers(TxView(d, RepoMergePR(ps.tx, a.pr)), a.pr),
                         !.loc.status =
                             TxView(d, RepoMergePR(ps.tx, a.pr)).prs[a.pr].status]) )
          [] ps.pc = "commit" -> CommitTx(d, ps, "return")
          [] ps.pc = "return" ->
               Return(d, ps, [NoRet EXCEPT !.revs = ps.loc.revs, !.status = ps.loc.status])

\* --------------------------------------------- PullRequestService.AssignReviewer
\* variant: the cap test off by one
AtCapOffByOne(revs) == Cardinality(revs) > maxReviewers

\* len(pr.Reviewers) >= maxReviewers
AtCap(revs) == Cardinality(revs) >= maxReviewers

\* variant: the loop over pr.Reviewers finds nobody
AlreadyAssignedNever(revs, userID) == FALSE

\* for _, r := range pr.Reviewers { if r.ID == userID { return pr, nil } }
AlreadyAssigned(revs, userID) == userID \in revs

\* arg: pr, user
AssignReviewerStep(d, ps) ==
    LET a == ps.arg
        l == ps.loc
    IN  CASE ps.pc = "start" ->
               \* userRepo.GetUserByID (pool), then user.IsActive
               Fault(d, ps) \cup
               ( IF ~UserFound(d, a.user) THEN Fail(d, ps, "NotFound")
                 ELSE IF ~d.users[a.user].active THEN Fail(d, ps, "UserNotActive")
                 ELSE Goto(d, ps, "getPR") )
          [] ps.pc = "getPR" ->
               \* GetPR: prRepo.GetPRByID (pool)
               Fault(d, ps) \cup
               ( IF ~PRFound(d, a.pr) THEN Fail(d, ps, "NotFound")
                 ELSE Succ(d, [ps EXCEPT !.pc = "getReviewers",
                                         !.loc.author = d.prs[a.pr].author,
                                         !.loc.status = d.prs[a.pr].status]) )
          [] ps.pc = "getReviewers" ->
               \* GetPR: prRepo.GetReviewers (pool), then the checks on the PR read
               Fault(d, ps) \cup
               ( LET revs == GetReviewers(d, a.pr)
                 IN  IF ~IsOpen(l) THEN Fail(d, ps, "PRMerged")
                     ELSE IF l.author = a.user THEN Fail(d, ps, "Validation")
                     ELSE IF AlreadyAssigned(revs, a.user)
                          THEN Return(d, ps, [NoRet EXCEPT !.revs = revs, !.status = l.status])
                     ELSE IF AtCap(revs) THEN Fail(d, ps, "Validation")
                     ELSE Succ(d, [ps EXCEPT !.pc = "begin", !.loc.revs = revs]) )
          [] ps.pc = "begin" -> BeginTx(d, ps, "assign")
          [] ps.pc = "assign" ->
               \* prRepo.AssignReviewers (tx)
               Fault(d, ps) \cup
               ( IF AssignReviewersOK(d, ps.tx, a.pr, {a.user})
                 THEN Succ(d, [ps EXCEPT !.pc = "commit",
                                         !.tx = AssignReviewers(ps.tx, a.pr, {a.user})])
                 ELSE Fail(d, ps, "Internal") )
          [] ps.pc = "commit" -> CommitTx(d, ps, "reread")
          [] ps.pc = "reread" ->
               \* return s.GetPR(ctx, prID): both reads through the pool
               Fault(d, ps) \cup
               ( IF ~PRFound(d, a.pr) THEN Fail(d, ps, "NotFound")
                 ELSE Return(d, ps, [NoRet EXCEPT !.revs = GetReviewers(d, a.pr),
                                                  !.status = d.prs[a.pr].status]) )

\* ------------------------------------------- PullRequestService.ReassignReviewer
\* s.prRepo.GetReviewers(ctx, pr.ID) after RemoveReviewer: the call takes no
\* transaction, Repository.GetReviewers uses querier(nil)
RefetchReviewers(d, tx, pr) == GetReviewers(Pool(d, tx), pr)

\* variant: only the status is checked
validateReassignmentStatusOnly(pr, revs, oldUserID) ==
    IF ~IsOpen(pr) THEN "PRMerged" ELSE ""

\* validateReassignment: the error it returns ("" for nil)
validateReassignment(pr, revs, oldUserID) ==
    IF ~IsOpen(pr) THEN "PRMerged"
    ELSE IF oldUserID \notin revs THEN "NotAssigned"
    ELSE ""

\* arg: pr, user (oldUserID)
ReassignReviewerStep(d, ps) ==
    LET a == ps.arg
        l == ps.loc
    IN  CASE ps.pc = "start" ->
               \* GetPR: prRepo.GetPRByID (pool)
               Fault(d, ps) \cup
               ( IF ~PRFound(d, a.pr) THEN Fail(d, ps, "NotFound")
                 ELSE Succ(d, [ps EXCEPT !.pc = "getReviewers",
                                         !.loc.author = d.prs[a.pr].author,
                                         !.loc.status = d.prs[a.pr].status]) )
          [] ps.pc = "getReviewers" ->
               \* GetPR: prRepo.GetReviewers (pool), then validateReassignment
               Fault(d, ps) \cup
               ( LET err == validateReassignment(l, GetReviewers(d, a.pr), a.user)
                 IN  IF err # "" THEN Fail(d, ps, err) ELSE Goto(d, ps, "begin") )
          [] ps.pc = "begin" -> BeginTx(d, ps, "remove")
          [] ps.pc = "remove" ->
               \* reassignReviewerInTx: prRepo.RemoveReviewer (tx)
               Fault(d, ps) \cup
               Succ(d, [ps EXCEPT !.pc = "current",
                                  !.tx = RemoveReviewer(d, ps.tx, a.pr, a.user)])
          [] ps.pc = "current" ->
               \* reassignReviewerInTx: prRepo.GetReviewers, minus oldUserID
               Fault(d, ps) \cup
               Succ(d, [ps EXCEPT !.pc = "author",
                                  !.loc.fetched = RefetchReviewers(d, ps.tx, a.pr),
                                  !.loc.revs = RefetchReviewers(d, ps.tx, a.pr) \ {a.user}])
          [] ps.pc = "author" ->
               \* reassignReviewerInTx: userRepo.GetUserByID(pr.AuthorID) (pool)
               Fault(d, ps) \cup
               ( IF ~UserFound(d, l.author) THEN Fail(d, ps, "NotFound")
                 ELSE Succ(d, [ps EXCEPT !.pc = "find",
                                         !.loc.team = d.users[l.author].team]) )
          [] ps.pc = "find" ->
               \* reassignReviewerInTx: FindReviewCandidates (pool), limit 1,
               \* excluding the current reviewers and oldUserID
               Fault(d, ps) \cup
               { [db |-> d,
                  ps |-> [ps EXCEPT !.pc = IF C = {} THEN "commit" ELSE "assign",
                                    !.loc.cands = C]] :
                 C \in FindReviewCandidates(Pool(d, ps.tx), l.team, l.author,
                                            l.revs \cup {a.user}, 1) }
          [] ps.pc = "assign" ->
               \* reassignReviewerInTx: prRepo.AssignReviewers (tx)
               Fault(d, ps) \cup
               ( IF AssignReviewersOK(d, ps.tx, a.pr, l.cands)
                 THEN Succ(d, [ps EXCEPT !.pc = "commit",
                                         !.tx = AssignReviewers(ps.tx, a.pr, l.cands)])
                 ELSE Fail(d, ps, "Internal") )
          [] ps.pc = "commit" -> CommitTx(d, ps, "reread")
          [] ps.pc = "reread" ->
               \* retPR, err := s.GetPR(ctx, prID); return retPR, newReviewerID, nil
               Fault(d, ps) \cup
               ( IF ~PRFound(d, a.pr) THEN Fail(d, ps, "NotFound")
                 ELSE Return(d, ps,
                        [NoRet EXCEPT !.revs = GetReviewers(d, a.pr),
                                      !.status = d.prs[a.pr].status,
                                      !.new = IF l.cands = {} THEN ""
                                              ELSE CHOOSE c \in l.cands : TRUE]) )

\* ------------------------------- PullRequestService.reassignReviewsForUsers
\* The loops over userIDs and prs; loc.users and loc.prs hold what is left,
\* their heads are the current userID and pr.

\* the loops' bookkeeping after the body ran for the current pr
NextPR(ps) ==
    IF Len(ps.loc.prs) > 1
    THEN [ps EXCEPT !.pc = "k_remove", !.loc.prs = Tail(@)]
    ELSE IF Len(ps.loc.users) > 1
    THEN [ps EXCEPT !.pc = "k_user", !.loc.prs = <<>>, !.loc.users = Tail(@)]
    ELSE [ps EXCEPT !.pc = "commit", !.loc.prs = <<>>, !.loc.users = <<>>]

\* variant: top up whenever the pull request is below the cap
NeedsTopUpBelowCap(currentReviewers) == Cardinality(currentReviewers) < maxReviewers

\* variant: a topped-up pull request is not counted
reassignedCountKept(n) == n

\* reassignedCount++
reassignedCount(n) == n + 1

\* variant: top up after every removal
NeedsTopUpAlways(currentReviewers) == TRUE

\* len(currentReviewers) == 0
NeedsTopUp(currentReviewers) == Cardinality(currentReviewers) = 0

\* the call: loop over userIDs, or return at once for an empty list
EnterCascade(ps, userIDs) ==
    IF userIDs = <<>> THEN [ps EXCEPT !.pc = "commit"]
    ELSE [ps EXCEPT !.pc = "k_user", !.loc.users = userIDs, !.loc.prs = <<>>]

reassignReviewsForUsersStep(d, ps) ==
    LET l == ps.loc
        userID == Head(l.users)
        pr == Head(l.prs)
    IN  CASE ps.pc = "k_user" ->
               \* prRepo.GetOpenPRsByReviewer (tx)
               Fault(d, ps) \cup
               { [db |-> d,
                  ps |-> IF o = <<>> THEN NextPR(ps)
                         ELSE [ps EXCEPT !.pc = "k_remove", !.loc.prs = o]] :
                 o \in Orders(GetOpenPRsByReviewer(TxView(d, ps.tx), userID)) }
          [] ps.pc = "k_remove" ->
               \* prRepo.RemoveReviewer (tx)
               Fault(d, ps) \cup
               Succ(d, [ps EXCEPT !.pc = "k_current",
                                  !.tx = RemoveReviewer(d, ps.tx, pr, userID)])
          [] ps.pc = "k_current" ->
               \* prRepo.GetReviewers; len(currentReviewers) == 0 ?
               Fault(d, ps) \cup
               ( LET ps2 == [ps EXCEPT !.loc.fetched = RefetchReviewers(d, ps.tx, pr)]
                 IN  IF ~NeedsTopUp(ps2.loc.fetched)
                     THEN Succ(d, NextPR(ps2))
                     ELSE Succ(d, [ps2 EXCEPT !.pc = "k_author",
                                              !.loc.revs = ps2.loc.fetched]) )
          [] ps.pc = "k_author" ->
               \* userRepo.GetUserByID(pr.AuthorID) (pool)
               Fault(d, ps) \cup
               ( LET author == TxView(d, ps.tx).prs[pr].author
                 IN  IF ~UserFound(d, author) THEN Fail(d, ps, "NotFound")
                     ELSE Succ(d, [ps EXCEPT !.pc = "k_team",
                                             !.loc.author = author,
                                             !.loc.team = d.users[author].team]) )
          [] ps.pc = "k_team" ->
               \* teamRepo.GetTeamByID (pool); authorTeam.IsActive ?
               Fault(d, ps) \cup
               ( IF ~TeamFound(d, l.team) THEN Fail(d, ps, "NotFound")
                 ELSE IF ~d.teams[l.team].active THEN Succ(d, NextPR(ps))
                 ELSE Goto(d, ps, "k_find") )
          [] ps.pc = "k_find" ->
               \* userRepo.FindReviewCandidates (pool),
               \* limit maxReviewers - len(currentReviewers)
               Fault(d, ps) \cup
               { [db |-> d,
                  ps |-> IF C = {} THEN NextPR(ps)
                         ELSE [ps EXCEPT !.pc = "k_assign", !.loc.cands = C]] :
                 C \in FindReviewCandidates(Pool(d, ps.tx), l.team, l.author, l.revs,
                                            maxReviewers - Cardinality(l.revs)) }
          [] ps.pc = "k_assign" ->
               \* prRepo.AssignReviewers (tx); reassignedCount++
               Fault(d, ps) \cup
               ( IF AssignReviewersOK(d, ps.tx, pr, l.cands)
                 THEN Succ(d, NextPR([ps EXCEPT !.tx = AssignReviewers(ps.tx, pr, l.cands),
                                                !.loc.count = reassignedCount(@)]))
                 ELSE Fail(d, ps, "Internal") )

InCascade(ps) == ps.pc \in {"k_user", "k_remove", "k_current", "k_author", "k_team",
                            "k_find", "k_assign"}

\* ------------------------------------------------ UserService.SetUserActiveStatus
\* arg: user, active
SetUserActiveStatusStep(d, ps) ==
    LET a == ps.arg
    IN  CASE ps.pc = "start" -> BeginTx(d, ps, "set")
          [] ps.pc = "set" ->
               \* userRepo.SetUserActiveStatus (tx); if !isActive the cascade for this user
               Fault(d, ps) \cup
               ( IF ~UserFound(TxView(d, ps.tx), a.user) THEN Fail(d, ps, "NotFound")
                 ELSE LET ps2 == [ps EXCEPT !.tx = RepoSetUserActiveStatus(ps.tx, a.user, a.active)]
                      IN  IF ~a.active THEN Succ(d, EnterCascade(ps2, <<a.user>>))
                          ELSE Succ(d, [ps2 EXCEPT !.pc = "commit"]) )
          [] InCascade(ps) -> reassignReviewsForUsersStep(d, ps)
          [] ps.pc = "commit" -> CommitTx(d, ps, "return")
          [] ps.pc = "return" -> Return(d, ps, NoRet)

\* ------------------------------------------ TeamService.DeactivateTeamAndReassign
\* arg: team (teamName)
DeactivateTeamAndReassignStep(d, ps) ==
    LET a == ps.arg
    IN  CASE ps.pc = "start" -> BeginTx(d, ps, "getTeam")
          [] ps.pc = "getTeam" ->
               \* teamRepo.GetTeamByName (pool)
               Fault(d, ps) \cup
               ( IF ~TeamFound(d, a.team) THEN Fail(d, ps, "NotFound")
                 ELSE Succ(d, [ps EXCEPT !.pc = "deactivate", !.loc.team = a.team]) )
          [] ps.pc = "deactivate" ->
               \* teamRepo.DeactivateTeam (tx), which looks the team up by name (pool) first
               Fault(d, ps) \cup
               ( IF ~TeamFound(d, a.team) THEN Fail(d, ps, "NotFound")
                 ELSE Succ(d, [ps EXCEPT !.pc = "users",
                                         !.tx = RepoDeactivateTeam(ps.tx, a.team)]) )
          [] ps.pc = "users" ->
               \* userRepo.DeactivateUsersByTeam (tx), then the cascade for the ids returned
               Fault(d, ps) \cup
               { [db |-> d,
                  ps |-> EnterCascade(
                           [ps EXCEPT !.tx = DeactivateUsersByTeam(d, ps.tx, ps.loc.team),
                                      !.loc.ndeact = Len(o)], o)] :
                 o \in Orders(DeactivatedIDs(d, ps.tx, ps.loc.team)) }
          [] InCascade(ps) -> reassignReviewsForUsersStep(d, ps)
          [] ps.pc = "commit" -> CommitTx(d, ps, "return")
          [] ps.pc = "return" ->
               Return(d, ps, [NoRet EXCEPT !.ndeact = ps.loc.ndeact, !.count = ps.loc.count])

\* ---------------------------------------------------- UserService.MoveUserToTeam
\* arg: user, team (newTeamName)
MoveUserToTeamStep(d, ps) ==
    LET a == ps.arg
    IN  CASE ps.pc = "start" ->
               \* userRepo.GetUserByID (pool), user.CanBeMoved
               Fault(d, ps) \cup
               ( IF ~UserFound(d, a.user) THEN Fail(d, ps, "NotFound")
                 ELSE IF ~CanBeMoved(d.users[a.user]) THEN Fail(d, ps, "Validation")
                 ELSE Goto(d, ps, "getTeam") )
          [] ps.pc = "getTeam" ->
               \* teamRepo.GetTeamByName (pool), newTeam.CanBeMoved
               Fault(d, ps) \cup
               ( IF ~TeamFound(d, a.team) THEN Fail(d, ps, "NotFound")
                 ELSE IF ~CanBeMoved(d.teams[a.team]) THEN Fail(d, ps, "Validation")
                 ELSE Goto(d, ps, "begin") )
          [] ps.pc = "begin" -> BeginTx(d, ps, "move")
          [] ps.pc = "move" ->
               \* userRepo.MoveUserToTeam (tx)
               Fault(d, ps) \cup
               ( IF ~UserFound(TxView(d, ps.tx), a.user) THEN Fail(d, ps, "NotFound")
                 ELSE Succ(d, [ps EXCEPT !.pc = "commit",
                                         !.tx = RepoMoveUserToTeam(ps.tx, a.user, a.team)]) )
          [] ps.pc = "commit" -> CommitTx(d, ps, "return")
          [] ps.pc = "return" -> Return(d, ps, NoRet)

\* -------------------------------------------------------- UserService.UpdateUser
\* arg: user (ID), team (TeamID), active (IsActive)
UpdateUserStep(d, ps) ==
    LET a == ps.arg
    IN  CASE ps.pc = "start" ->
               \* user.ID == "" ?
               IF a.user = "" THEN Fail(d, ps, "Validation")
               ELSE BeginTx(d, ps, "update")
          [] ps.pc = "update" ->
               \* userRepo.UpdateUser (tx): no row is NotFound, a team id that no
               \* team has breaks the foreign key
               Fault(d, ps) \cup
               ( IF ~UserFound(TxView(d, ps.tx), a.user) THEN Fail(d, ps, "NotFound")
                 ELSE IF ~TeamFound(TxView(d, ps.tx), a.team) THEN Fail(d, ps, "Internal")
                 ELSE Succ(d, [ps EXCEPT !.pc = "commit",
                                         !.tx = RepoUpdateUser(ps.tx, a.user, a.team, a.active)]) )
          [] ps.pc = "commit" -> CommitTx(d, ps, "return")
          [] ps.pc = "return" -> Return(d, ps, NoRet)

\* ------------------------------------------------------ TeamService.CreateTeam
\* A users row is named by its username here: the user_id is uuid.New() and
\* collides with nothing, the username is UNIQUE.

\* variant: usernames are not unique
CreateUserOKNoUnique(v, username) == TRUE

\* the INSERT INTO users passes the UNIQUE (username) constraint
CreateUserOK(v, username) == ~v.users[username].exists

\* Repository.CreateUser: the row is inserted with is_active = true
RepoCreateUser(tx, username, teamID) == [tx EXCEPT !.unew = @ \cup {<<username, teamID>>}]

\* Repository.CreateTeam: INSERT INTO teams (team_name), is_active defaults to true
RepoCreateTeam(tx, name) == [tx EXCEPT !.tnew = @ \cup {name}]

\* arg: team (name); loc.userNames
CreateTeamStep(d, ps) ==
    LET a == ps.arg
    IN  CASE ps.pc = "start" ->
               \* name == "" ?
               IF a.team = "" THEN Fail(d, ps, "Validation")
               ELSE BeginTx(d, ps, "createTeam")
          [] ps.pc = "createTeam" ->
               \* teamRepo.CreateTeam (tx): a unique violation is ErrTeamExists
               Fault(d, ps) \cup
               ( IF TeamFound(TxView(d, ps.tx), a.team) THEN Fail(d, ps, "TeamExists")
                 ELSE Succ(d, [ps EXCEPT !.pc = "loop",
                                         !.loc.users = ps.loc.userNames,
                                         !.tx = RepoCreateTeam(ps.tx, a.team)]) )
          [] ps.pc = "loop" ->
               \* for _, username := range userNames
               IF ps.loc.users = <<>> THEN Goto(d, ps, "commit")
               ELSE IF Head(ps.loc.users) = "" THEN Fail(d, ps, "Validation")
               ELSE \* userRepo.CreateUser (tx): a unique violation is ErrValidation
                    Fault(d, ps) \cup
                    ( IF ~CreateUserOK(TxView(d, ps.tx), Head(ps.loc.users))
                      THEN Fail(d, ps, "Validation")
                      ELSE Succ(d, [ps EXCEPT !.loc.users = Tail(ps.loc.users),
                                              !.tx = RepoCreateUser(ps.tx, Head(ps.loc.users),
                                                                    a.team)]) )
          [] ps.pc = "commit" -> CommitTx(d, ps, "return")
          [] ps.pc = "return" -> Return(d, ps, NoRet)

\* ------------------------------------------------------------- StatsService
\* GetStats: statsRepo.GetReviewStats (pool)
GetStatsStep(d, ps) ==
    Fault(d, ps) \cup Return(d, ps, [NoRet EXCEPT !.stats = GetReviewStats(Pool(d, ps.tx))])

\* GetOpenReviewCountForUser, arg: user
GetOpenReviewCountForUserStep(d, ps) ==
    Fault(d, ps) \cup
    Return(d, ps, [NoRet EXCEPT !.count = CountReviewsByUser(Pool(d, ps.tx), ps.arg.user,
                                                            StatusOpen)])

\* GetMergedReviewCountForUser, arg: user
GetMergedReviewCountForUserStep(d, ps) ==
    Fault(d, ps) \cup
    Return(d, ps, [NoRet EXCEPT !.count = CountReviewsByUser(Pool(d, ps.tx), ps.arg.user,
                                                            StatusMerged)])

\* ------------------------------------------------------------- one step, any
Step(d, ps) ==
    CASE ps.op = "CreatePR" -> CreatePRStep(d, ps)
      [] ps.op = "MergePR" -> MergePRStep(d, ps)
      [] ps.op = "AssignReviewer" -> AssignReviewerStep(d, ps)
      [] ps.op = "ReassignReviewer" -> ReassignReviewerStep(d, ps)
      [] ps.op = "SetUserActiveStatus" -> SetUserActiveStatusStep(d, ps)
      [] ps.op = "DeactivateTeamAndReassign" -> DeactivateTeamAndReassignStep(d, ps)
      [] ps.op = "MoveUserToTeam" -> MoveUserToTeamStep(d, ps)
      [] ps.op = "UpdateUser" -> UpdateUserStep(d, ps)
      [] ps.op = "GetStats" -> GetStatsStep(d, ps)
      [] ps.op = "GetOpenReviewCountForUser" -> GetOpenReviewCountForUserStep(d, ps)
      [] ps.op = "GetMergedReviewCountForUser" -> GetMergedReviewCountForUserStep(d, ps)

\* an operation run from its call to its return with no other operation in
\* between: every outcome (committed rows, result) it can have
RECURSIVE Run(_, _)
Run(d, ps) ==
    IF ps.pc = "done" THEN Succ(d, ps)
    ELSE UNION { Run(s.db, s.ps) : s \in Step(d, ps) }

\* what the caller gets back
Result(ps) ==
    [ op |-> ps.op, arg |-> ps.arg, began |-> ps.began, committed |-> ps.committed,
      err |-> ps.err, at |-> ps.at, ret |-> ps.ret ]

NoResult == Result(Idle)

\* ------------------------------------------------------------------- state
\* Two teams as CreateTeam leaves them: t1 with u1, u2, u3 and t2 with u4,
\* everything active, no pull request yet.
InitTeams == [t \in TeamIds |-> [active |-> t \in {"t1", "t2"}, exists |-> t \in {"t1", "t2"}]]

InitUsers ==
    [u \in UserIds |->
        [ active |-> u # "u5",
          exists |-> u # "u5",
          team   |-> IF u \in {"u1", "u2", "u3"} THEN "t1" ELSE IF u = "u4" THEN "t2" ELSE "" ]]

NoPR == [exists |-> FALSE, author |-> "", status |-> StatusOpen]

InitDB == [teams |-> InitTeams, users |-> InitUsers, prs |-> [p \in PrIds |-> NoPR], ra |-> {}]

\* The same with u4 deactivated (SetUserActiveStatus(u4, false)) before any
\* pull request exists.
InitDBs == {InitDB, [InitDB EXCEPT !.users["u4"].active = FALSE]}

Init ==
    /\ db \in InitDBs
    /\ proc = [p \in Procs |-> Idle]
    /\ last = NoResult
    /\ nops = 0

\* uuid.New(): an id no pull request has
NewID(d) == CHOOSE id \in PrIds : ~d.prs[id].exists /\ \A j \in PrIds : j < id => d.prs[j].exists

\* ----------------------------------------------- operations, one at a time
\* no response is pending and another request may come
Ready == nops < MaxOps /\ last = NoResult

\* the operation op(arg) is called and runs to its return
Call(op, arg) ==
    /\ \E s \in Run(db, Start(op, arg)) :
          /\ db' = s.db
          /\ last' = Result(s.ps)
    /\ nops' = nops + 1
    /\ UNCHANGED proc

CreatePR ==
    \E name \in {"", "feat"}, authorID \in UserIds \cup {""} :
        /\ Ready
        /\ \E id \in PrIds : ~db.prs[id].exists
        /\ Call("CreatePR", Arg(name, NewID(db), authorID, "", FALSE))

MergePR ==
    \E prID \in PrIds :
        /\ Ready
        /\ Call("MergePR", Arg("", prID, "", "", FALSE))

AssignReviewer ==
    \E prID \in PrIds, userID \in UserIds :
        /\ Ready
        /\ Call("AssignReviewer", Arg("", prID, userID, "", FALSE))

ReassignReviewer ==
    \E prID \in PrIds, oldUserID \in UserIds :
        /\ Ready
        /\ Call("ReassignReviewer", Arg("", prID, oldUserID, "", FALSE))

SetUserActiveStatus ==
    \E userID \in UserIds, isActive \in BOOLEAN :
        /\ Ready
        /\ Call("SetUserActiveStatus", Arg("", 0, userID, "", isActive))

DeactivateTeamAndReassign ==
    \E teamName \in TeamIds :
        /\ Ready
        /\ Call("DeactivateTeamAndReassign", Arg("", 0, "", teamName, FALSE))

MoveUserToTeam ==
    \E userID \in UserIds, newTeamName \in TeamIds :
        /\ Ready
        /\ Call("MoveUserToTeam", Arg("", 0, userID, newTeamName, FALSE))

\* handler.go PostUsersEdit builds the domain.User from the request without a
\* TeamID: UpdateUser gets the zero id, which no team has ("")
PostUsersEdit ==
    \E userID \in UserIds \cup {""}, isActive \in BOOLEAN :
        /\ Ready
        /\ Call("UpdateUser", Arg("", 0, userID, "", isActive))

\* the HTTP handler writes the response; the next request can be served
Respond ==
    /\ last # NoResult
    /\ last' = NoResult
    /\ UNCHANGED <<db, proc, nops>>

Next ==
    \/ Respond
    \/ CreatePR
    \/ MergePR
    \/ AssignReviewer
    \/ ReassignReviewer
    \/ SetUserActiveStatus
    \/ DeactivateTeamAndReassign
    \/ MoveUserToTeam
    \/ PostUsersEdit

Spec == Init /\ [][Next]_vars

\* ------------------------------ operations, one at a time, UpdateUser direct
\* UserService.UpdateUser called with a domain.User of the caller's making
\* (ID, TeamID, IsActive), next to the operations above.
UpdateUser ==
    \E userID \in UserIds \cup {""}, teamID \in TeamIds, isActive \in BOOLEAN :
        /\ Ready
        /\ Call("UpdateUser", Arg("", 0, userID, teamID, isActive))

NextU ==
    \/ Next
    \/ UpdateUser

SpecU == Init /\ [][NextU]_vars

\* ------------------------------- operations, one at a time, with statistics
\* The statistics reads of StatsService next to the operations above.
GetStats ==
    /\ Ready
    /\ Call("GetStats", NoArg)

GetOpenReviewCountForUser ==
    \E userID \in UserIds :
        /\ Ready
        /\ Call("GetOpenReviewCountForUser", Arg("", 0, userID, "", FALSE))

GetMergedReviewCountForUser ==
    \E userID \in UserIds :
        /\ Ready
        /\ Call("GetMergedReviewCountForUser", Arg("", 0, userID, "", FALSE))

NextS ==
    \/ Next
    \/ GetStats
    \/ GetOpenReviewCountForUser
    \/ GetMergedReviewCountForUser

SpecS == Init /\ [][NextS]_vars

\* ------------------------------------------------- operations, interleaved
\* Two workers, one operation each, one data-access call per step.  A
\* statement that writes a row waits for the row lock while another open
\* transaction has written that row; the wait ends when that transaction
\* commits or rolls back, or when the request's context is cancelled (the
\* statement fails).

\* the committed rows every successful run of op(arg) from a state of D leaves
After(D, op, arg) ==
    UNION { { s.db : s \in { r \in Run(d, Start(op, arg)) : r.ps.err = "" } } : d \in D }

\* Committed states the interleaved operations start from: pull request 1
\* created by u1 (reviewers u2, u3), the same after u2 was reassigned away
\* or deactivated (reviewer u3 only), or created by u4 (no reviewer).
Seeds ==
    LET byU1 == After({InitDB}, "CreatePR", Arg("feat", 1, "u1", "", FALSE))
        byU4 == After({InitDB}, "CreatePR", Arg("feat", 1, "u4", "", FALSE))
    IN  byU1 \cup byU4
        \cup After(byU1, "ReassignReviewer", Arg("", 1, "u2", "", FALSE))
        \cup After(byU1, "SetUserActiveStatus", Arg("", 0, "u2", "", FALSE))

InitC ==
    /\ db \in Seeds
    /\ proc = [p \in Procs |-> Idle]
    /\ last = NoResult
    /\ nops = 0

\* the requests a worker may be handed
Requests ==
    { [op |-> "CreatePR", arg |-> Arg("feat", 0, u, "", FALSE)] : u \in {"u1", "u4"} }
    \cup { [op |-> "MergePR", arg |-> Arg("", p, "", "", FALSE)] : p \in PrIds }
    \cup { [op |-> o, arg |-> Arg("", p, u, "", FALSE)] :
             o \in {"AssignReviewer", "ReassignReviewer"}, p \in PrIds, u \in UserIds \ {"u5"} }
    \cup { [op |-> "SetUserActiveStatus", arg |-> Arg("", 0, u, "", b)] :
             u \in UserIds \ {"u5"}, b \in BOOLEAN }
    \cup { [op |-> "DeactivateTeamAndReassign", arg |-> Arg("", 0, "", t, FALSE)] :
             t \in {"t1", "t2"} }
    \cup { [op |-> "MoveUserToTeam", arg |-> Arg("", 0, u, t, FALSE)] :
             u \in UserIds \ {"u5"}, t \in {"t1", "t2"} }

\* the rows the statement at ps is about to write
Wants(d, ps) ==
    LET a == ps.arg
        l == ps.loc
    IN  [ ins   |-> CASE ps.op \in {"CreatePR", "ReassignReviewer"} /\ ps.pc = "assign" ->
                           {<<a.pr, u>> : u \in l.cands}
                      [] ps.op = "AssignReviewer" /\ ps.pc = "assign" -> {<<a.pr, a.user>>}
                      [] ps.pc = "k_assign" -> {<<Head(l.prs), u>> : u \in l.cands}
                      [] OTHER -> {},
          del   |-> CASE ps.op = "ReassignReviewer" /\ ps.pc = "remove" ->
                           {<<a.pr, a.user>>} \cap d.ra
                      [] ps.pc = "k_remove" -> {<<Head(l.prs), Head(l.users)>>} \cap d.ra
                      [] OTHER -> {},
          teams |-> IF ps.op = "DeactivateTeamAndReassign" /\ ps.pc = "deactivate"
                    THEN {a.team} ELSE {},
          users |-> CASE ps.op = "SetUserActiveStatus" /\ ps.pc = "set" -> {a.user}
                      [] ps.op = "MoveUserToTeam" /\ ps.pc = "move" -> {a.user}
                      [] ps.op = "DeactivateTeamAndReassign" /\ ps.pc = "users" ->
                           DeactivatedIDs(d, ps.tx, l.team)
                      [] OTHER -> {},
          prs   |-> IF ps.op = "MergePR" /\ ps.pc = "merge" THEN {a.pr} ELSE {} ]

\* the statement at ps waits for a row lock the open transaction tx holds
Conflict(d, ps, tx) ==
    LET w == Wants(d, ps)
    IN  \/ w.ins \cap (tx.ins \cup tx.del) # {}
        \/ w.del \cap tx.del # {}
        \/ \E u \in w.users : tx.uact[u] # "keep" \/ tx.uteam[u] # "keep"
        \/ w.teams \cap tx.toff # {}
        \/ w.prs \cap tx.merged # {}

Blocked(p) == \E q \in Procs \ {p} : Conflict(db, proc[p], proc[q].tx)

\* a worker takes a request; CreatePR draws an id no pull request has
Accept(p) ==
    /\ proc[p] = Idle
    /\ \E r \in Requests :
          IF r.op = "CreatePR"
          THEN \E id \in PrIds :
                  /\ ~db.prs[id].exists
                  /\ \A q \in Procs : ~(proc[q].op = "CreatePR" /\ proc[q].arg.pr = id)
                  /\ proc' = [proc EXCEPT ![p] = Start(r.op, [r.arg EXCEPT !.pr = id])]
          ELSE proc' = [proc EXCEPT ![p] = Start(r.op, r.arg)]
    /\ UNCHANGED <<db, last, nops>>

\* the worker's operation makes its next data-access call
Advance(p) ==
    /\ proc[p].pc \notin {"idle", "done"}
    /\ \E s \in (IF Blocked(p) THEN Fault(db, proc[p]) ELSE Step(db, proc[p])) :
          /\ db' = s.db
          /\ proc' = [proc EXCEPT ![p] = s.ps]
    /\ UNCHANGED <<last, nops>>

\* the next call of an operation in flight, per operation
ServeCreatePR == \E p \in Procs : proc[p].op = "CreatePR" /\ Advance(p)

ServeMergePR == \E p \in Procs : proc[p].op = "MergePR" /\ Advance(p)

ServeAssignReviewer == \E p \in Procs : proc[p].op = "AssignReviewer" /\ Advance(p)

ServeReassignReviewer == \E p \in Procs : proc[p].op = "ReassignReviewer" /\ Advance(p)

ServeSetUserActiveStatus == \E p \in Procs : proc[p].op = "SetUserActiveStatus" /\ Advance(p)

ServeDeactivateTeamAndReassign == \E p \in Procs : proc[p].op = "DeactivateTeamAndReassign" /\ Advance(p)

ServeMoveUserToTeam == \E p \in Procs : proc[p].op = "MoveUserToTeam" /\ Advance(p)

NextC ==
    \/ \E p \in Procs : Accept(p)
    \/ ServeCreatePR
    \/ ServeMergePR
    \/ ServeAssignReviewer
    \/ ServeReassignReviewer
    \/ ServeSetUserActiveStatus
    \/ ServeDeactivateTeamAndReassign
    \/ ServeMoveUserToTeam

SpecC == InitC /\ [][NextC]_vars

\* Two requests with the scheduling the runtime gives: every request runs on
\* its own goroutine, which is scheduled again and again, and every
\* data-access call returns (the storage answers, or the call fails).

\* pull request 1 created by u1, reviewers u2 and u3
InitL ==
    /\ db \in After({InitDB}, "CreatePR", Arg("feat", 1, "u1", "", FALSE))
    /\ proc = [p \in Procs |-> Idle]
    /\ last = NoResult
    /\ nops = 0

\* worker 1 takes any request, the other worker a team deactivation
AcceptL(p) ==
    /\ Accept(p)
    /\ p # 1 => proc'[p].op = "DeactivateTeamAndReassign"

NextL ==
    \/ \E p \in Procs : AcceptL(p)
    \/ ServeCreatePR
    \/ ServeMergePR
    \/ ServeAssignReviewer
    \/ ServeReassignReviewer
    \/ ServeSetUserActiveStatus
    \/ ServeDeactivateTeamAndReassign
    \/ ServeMoveUserToTeam

SpecL == InitL /\ [][NextL]_vars /\ \A p \in Procs : WF_vars(Advance(p))

\* ------------------------------------------- FindReviewCandidates on its own
\* The query run against the committed rows with arguments of the caller's
\* choice: team t1 (u1, u2, u3) and t2 (u4) with any of the users deactivated.

\* the committed rows after SetUserActiveStatus(u, false) for the users of S
Deactivated(S) ==
    [InitDB EXCEPT !.users = [u \in UserIds |->
                                 IF u \in S THEN [InitUsers[u] EXCEPT !.active = FALSE]
                                 ELSE InitUsers[u]]]

InitF ==
    /\ db \in { Deactivated(S) : S \in SUBSET {"u1", "u2", "u3", "u4"} }
    /\ proc = [p \in Procs |-> Idle]
    /\ last = NoResult
    /\ nops = 0

\* a caller passes its arguments
FindCandidatesCall ==
    /\ proc[1] = Idle
    /\ \E teamID \in TeamIds, authorID \in UserIds,
          excludeUserIDs \in SUBSET {"u2", "u3", "u4"}, limit \in 0..MaxLimit :
          proc' = [proc EXCEPT ![1] = [Idle EXCEPT !.op = "FindReviewCandidates",
                                                   !.pc = "find",
                                                   !.loc.team = teamID,
                                                   !.loc.author = authorID,
                                                   !.loc.excludeUserIDs = excludeUserIDs,
                                                   !.loc.atMost = limit]]
    /\ UNCHANGED <<db, last, nops>>

\* Repository.FindReviewCandidates: the query (pool); an error is ErrInternalError
FindReviewCandidatesStep(d, ps) ==
    Fault(d, ps) \cup
    { [db |-> d, ps |-> [ps EXCEPT !.pc = "done", !.loc.cands = C]] :
      C \in FindReviewCandidates(Pool(d, ps.tx), ps.loc.team, ps.loc.author,
                                 ps.loc.excludeUserIDs, ps.loc.atMost) }

\* the query runs and its rows, or its error, are returned
FindCandidatesReturn ==
    /\ proc[1].op = "FindReviewCandidates"
    /\ proc[1].pc = "find"
    /\ \E s \in FindReviewCandidatesStep(db, proc[1]) :
          /\ db' = s.db
          /\ proc' = [proc EXCEPT ![1] = s.ps]
    /\ UNCHANGED <<last, nops>>

NextF ==
    \/ FindCandidatesCall
    \/ FindCandidatesReturn

SpecF == InitF /\ [][NextF]_vars

\* ------------------------------------------------------- CreateTeam on its own
\* Team t1 with u1 and u2, team t2 without members; t3 and the usernames u3,
\* u4, u5 are free.
InitT ==
    /\ db = [InitDB EXCEPT !.users = [u \in UserIds |->
                                         IF u \in {"u3", "u4"} THEN InitUsers["u5"]
                                         ELSE InitUsers[u]]]
    /\ proc = [p \in Procs |-> Idle]
    /\ last = NoResult
    /\ nops = 0

\* the lists of at most two usernames, "" and repetitions included
UserNameLists ==
    {<<>>} \cup { <<a>> : a \in UserIds \cup {""} }
           \cup { <<a, b>> : a \in UserIds \cup {""}, b \in UserIds \cup {""} }

\* POST /team/add: the handler passes the team name and the usernames
CreateTeamCall ==
    /\ proc[1] = Idle
    /\ nops < MaxOps
    /\ \E name \in TeamIds \cup {""}, userNames \in UserNameLists :
          proc' = [proc EXCEPT ![1] = [Start("CreateTeam", Arg("", 0, "", name, FALSE))
                                          EXCEPT !.loc.userNames = userNames]]
    /\ nops' = nops + 1
    /\ UNCHANGED <<db, last>>

\* the next statement of CreateTeam
CreateTeamAdvance ==
    /\ proc[1].op = "CreateTeam"
    /\ proc[1].pc # "done"
    /\ \E s \in CreateTeamStep(db, proc[1]) :
          /\ db' = s.db
          /\ proc' = [proc EXCEPT ![1] = s.ps]
    /\ UNCHANGED <<last, nops>>

\* the handler writes the response
CreateTeamRespond ==
    /\ proc[1].op = "CreateTeam"
    /\ proc[1].pc = "done"
    /\ proc' = [proc EXCEPT ![1] = Idle]
    /\ UNCHANGED <<db, last, nops>>

NextT ==
    \/ CreateTeamCall
    \/ CreateTeamAdvance
    \/ CreateTeamRespond

SpecT == InitT /\ [][NextT]_vars

\* ------------------------------------------------------------- properties
\* the users with an assignment row on pull request p
Rows(d, p) == { u \in UserIds : <<p, u>> \in d.ra }

\* some user has the id u
Known(d, u) == u \in UserIds /\ d.users[u].exists

Open(d, p) == p \in PrIds /\ d.prs[p].exists /\ d.prs[p].status = StatusOpen

Merged(d, p) == p \in PrIds /\ d.prs[p].exists /\ d.prs[p].status = StatusMerged

\* the active members of a's team other than a
Teammates(d, a) ==
    { u \in UserIds : /\ d.users[u].exists
                      /\ d.users[u].active
                      /\ d.users[u].team = d.users[a].team
                      /\ u # a }

\* C1: with the operations run one at a time, every OPEN pull request has at
\* most maxReviewers assignment rows.
ReviewerCap ==
    \A p \in PrIds : Open(db, p) => Cardinality(Rows(db, p)) <= maxReviewers

\* an OPEN pull request at the cap has just refused one more reviewer
ReviewerCapReached ==
    /\ last.op = "AssignReviewer"
    /\ last.err = "Validation"
    /\ Open(db, last.arg.pr)
    /\ last.arg.user # db.prs[last.arg.pr].author
    /\ last.arg.user \notin Rows(db, last.arg.pr)
    /\ Cardinality(Rows(db, last.arg.pr)) = maxReviewers

\* C2: in every state, however the operations interleave, no pull request has
\* its author among its assignment rows.
NoSelfReview ==
    \A p \in PrIds : db.prs[p].exists => <<p, db.prs[p].author>> \notin db.ra

\* one worker replaced a reviewer by a drawn candidate while the other was
\* refused the author as reviewer
NoSelfReviewTried ==
    \E p, q \in Procs :
        /\ proc[p].op = "ReassignReviewer" /\ proc[p].pc = "done"
        /\ proc[p].err = "" /\ proc[p].ret.new # ""
        /\ <<proc[p].arg.pr, proc[p].ret.new>> \in db.ra
        /\ proc[q].op = "AssignReviewer" /\ proc[q].pc = "done"
        /\ proc[q].err = "Validation"
        /\ proc[q].arg.user = db.prs[proc[q].arg.pr].author

\* C3: once a pull request is MERGED its assignment rows never change, whatever
\* operation runs afterwards.
MergedRowsFrozen ==
    [][\A p \in PrIds : Merged(db, p) => Rows(db', p) = Rows(db, p)]_vars

\* C4: on a MERGED pull request AssignReviewer (here: for a user that exists),
\* ReassignReviewer and MergePR fail with PRMerged -- Internal if the storage
\* call itself fails -- and leave its status and rows as they were.
MergedRejects ==
    [][( /\ last'.op \in {"AssignReviewer", "ReassignReviewer", "MergePR"}
         /\ Merged(db, last'.arg.pr)
         /\ last'.op = "AssignReviewer" => Known(db, last'.arg.user) )
       => /\ last'.err \in {"PRMerged", "Internal"}
          /\ db'.prs[last'.arg.pr] = db.prs[last'.arg.pr]
          /\ Rows(db', last'.arg.pr) = Rows(db, last'.arg.pr)]_vars

\* C5: a pull request's status changes only from OPEN to MERGED and only in
\* the commit of a MergePR of that pull request; a pull request is created
\* OPEN and once MERGED stays MERGED.
StatusOnlyByMerge ==
    [][\A p \in PrIds :
          /\ db.prs[p].exists => db'.prs[p].exists
          /\ (db.prs[p].exists /\ db'.prs[p].status # db.prs[p].status) =>
                /\ db.prs[p].status = StatusOpen
                /\ db'.prs[p].status = StatusMerged
                /\ \/ last'.op = "MergePR" /\ last'.arg.pr = p /\ last'.err = ""
                   \/ \E q \in Procs : /\ proc[q].op = "MergePR"
                                       /\ proc[q].arg.pr = p
                                       /\ proc[q].pc = "commit"
                                       /\ proc'[q].committed
          /\ (~db.prs[p].exists /\ db'.prs[p].exists) => db'.prs[p].status = StatusOpen]_vars

\* a pull request is MERGED by one worker and the other worker's operation on
\* it, run after the merge, was refused
StatusMergedThenRefused ==
    \E p, q \in Procs :
        /\ proc[p].op = "MergePR" /\ proc[p].pc = "done" /\ proc[p].err = ""
        /\ Merged(db, proc[p].arg.pr)
        /\ proc[q].op \in {"AssignReviewer", "ReassignReviewer", "MergePR"}
        /\ proc[q].arg.pr = proc[p].arg.pr
        /\ proc[q].pc = "done" /\ proc[q].err = "PRMerged"

\* C6: CreatePR with a name and an existing author fails only if a storage call
\* fails; otherwise it commits a new OPEN pull request whose rows are exactly
\* min(N, maxReviewers) of the N active members of the author's team other
\* than the author (none, and no error, when N = 0).
CreatePRAssigns ==
    [][( /\ last'.op = "CreatePR"
         /\ last'.arg.name # ""
         /\ Known(db, last'.arg.user) )
       => LET id == last'.arg.pr
              author == last'.arg.user
              N == Cardinality(Teammates(db, author))
          IN  /\ last'.err \in {"", "Internal"}
              /\ last'.err = "" =>
                    /\ ~db.prs[id].exists
                    /\ db'.prs[id] = [exists |-> TRUE, author |-> author, status |-> StatusOpen]
                    /\ Rows(db', id) \subseteq Teammates(db, author)
                    /\ Cardinality(Rows(db', id)) = Min(N, maxReviewers)
                    /\ last'.ret.revs = Rows(db', id)]_vars

\* a pull request was created by an author with three active teammates and
\* got two of them
CreatePRAssigned ==
    /\ last.op = "CreatePR"
    /\ last.err = ""
    /\ Cardinality(Teammates(db, last.arg.user)) > maxReviewers
    /\ Cardinality(Rows(db, last.arg.pr)) = maxReviewers
    /\ Open(db, last.arg.pr)

\* C7: a CreatePR that fails leaves the committed rows as they were, also when
\* it fails after its INSERT INTO pull_requests; one that succeeds adds the
\* pull request row and the rows of the drawn reviewers together and nothing else.
CreatePRAtomic ==
    [][last'.op = "CreatePR" =>
          LET id == last'.arg.pr
          IN  /\ last'.err # "" => db' = db
              /\ last'.err = "" =>
                    /\ ~db.prs[id].exists /\ db'.prs[id].exists
                    /\ db'.ra = db.ra \cup {<<id, u>> : u \in last'.ret.revs}
                    /\ \A p \in PrIds \ {id} : db'.prs[p] = db.prs[p]
                    /\ db'.users = db.users /\ db'.teams = db.teams]_vars

\* a CreatePR failed at its commit, after the pull request row and reviewer
\* rows were written in the transaction, and none of them is there
CreatePRRolledBack ==
    /\ last.op = "CreatePR"
    /\ last.began
    /\ last.err = "Internal"
    /\ last.at = "commit"
    /\ Teammates(db, last.arg.user) # {}
    /\ ~db.prs[last.arg.pr].exists
    /\ Rows(db, last.arg.pr) = {}

\* C8: CreatePR with an empty name or author fails with Validation, with an
\* author id no user has it fails with NotFound (Internal if the lookup itself
\* fails); no transaction is begun and the committed rows stay as they were.
CreatePRRejects ==
    [][last'.op = "CreatePR" =>
          /\ (last'.arg.name = "" \/ last'.arg.user = "") =>
                last'.err = "Validation" /\ ~last'.began /\ db' = db
          /\ (last'.arg.name # "" /\ last'.arg.user # "" /\ ~Known(db, last'.arg.user)) =>
                /\ last'.err \in {"NotFound", "Internal"}
                /\ last'.at = "start"
                /\ ~last'.began
                /\ db' = db]_vars

\* a CreatePR for an author id no user has was refused with NotFound
CreatePRRejected ==
    /\ last.op = "CreatePR"
    /\ last.arg.name # ""
    /\ last.arg.user \in UserIds
    /\ ~db.users[last.arg.user].exists
    /\ last.err = "NotFound"
    /\ ~last.began

\* C9: AssignReviewer(pr, u) on an OPEN pull request, for a user u that exists,
\* fails with Validation (Internal if a storage call fails) when u is the
\* author and when u is no reviewer yet and the pull request has maxReviewers
\* rows; no row is added or removed.
AssignRejects ==
    [][( /\ last'.op = "AssignReviewer"
         /\ Open(db, last'.arg.pr)
         /\ Known(db, last'.arg.user)
         /\ \/ last'.arg.user = db.prs[last'.arg.pr].author
            \/ /\ last'.arg.user \notin Rows(db, last'.arg.pr)
               /\ Cardinality(Rows(db, last'.arg.pr)) >= maxReviewers )
       => /\ last'.err \in {"Validation", "Internal"}
          /\ db'.ra = db.ra]_vars

\* C10: an AssignReviewer(pr, u) that succeeds for a user not yet assigned was
\* made with u active and not the author on an OPEN pull request below the
\* cap, and commits the one row (pr, u): no other row, no status, no user and
\* no team changes.
AssignAddsOneRow ==
    [][( /\ last'.op = "AssignReviewer"
         /\ last'.err = ""
         /\ <<last'.arg.pr, last'.arg.user>> \notin db.ra )
       => /\ db'.ra = db.ra \cup {<<last'.arg.pr, last'.arg.user>>}
          /\ db'.prs = db.prs
          /\ db'.users = db.users
          /\ db'.teams = db.teams
          /\ Open(db, last'.arg.pr)
          /\ db.users[last'.arg.user].active
          /\ last'.arg.user # db.prs[last'.arg.pr].author
          /\ Cardinality(Rows(db, last'.arg.pr)) < maxReviewers
          /\ last'.ret.revs = Rows(db', last'.arg.pr)]_vars

\* an AssignReviewer committed a row for a user of another team
AssignAddedOneRow ==
    /\ last.op = "AssignReviewer"
    /\ last.err = ""
    /\ last.committed
    /\ <<last.arg.pr, last.arg.user>> \in db.ra
    /\ db.users[last.arg.user].team # db.users[db.prs[last.arg.pr].author].team

\* C11: AssignReviewer(pr, u) for a user u that already has a row on the OPEN
\* pull request returns without error (Internal if a storage call fails),
\* begins no transaction, leaves the committed rows as they were and returns
\* the reviewer set as it was; called again, it finds the same state.
AssignIdempotent ==
    [][( /\ last'.op = "AssignReviewer"
         /\ Open(db, last'.arg.pr)
         /\ <<last'.arg.pr, last'.arg.user>> \in db.ra )
       => /\ last'.err \in {"", "Internal"}
          /\ ~last'.began
          /\ db' = db
          /\ last'.err = "" => last'.ret.revs = Rows(db, last'.arg.pr)]_vars

\* an AssignReviewer for a user who already was a reviewer returned success
\* without a transaction
AssignRepeated ==
    /\ last.op = "AssignReviewer"
    /\ last.err = ""
    /\ ~last.began
    /\ Open(db, last.arg.pr)
    /\ <<last.arg.pr, last.arg.user>> \in db.ra
    /\ last.ret.revs = Rows(db, last.arg.pr)

\* C12: AssignReviewer(pr, u) for a user u that exists and is inactive fails
\* with Validation (Internal if the lookup itself fails) and adds no row.
AssignInactiveRejects ==
    [][( /\ last'.op = "AssignReviewer"
         /\ Known(db, last'.arg.user)
         /\ ~db.users[last'.arg.user].active )
       => /\ last'.err \in {"Validation", "Internal"}
          /\ db'.ra = db.ra]_vars

\* C13: ReassignReviewer(pr, old) on an OPEN pull request on which old has no
\* row fails with NotAssigned (Internal if a read fails), begins no
\* transaction and leaves the committed rows as they were.
ReassignNotAssigned ==
    [][( /\ last'.op = "ReassignReviewer"
         /\ Open(db, last'.arg.pr)
         /\ last'.arg.user \notin Rows(db, last'.arg.pr) )
       => /\ last'.err \in {"NotAssigned", "Internal"}
          /\ ~last'.began
          /\ db' = db]_vars

\* a ReassignReviewer for a user of the author's team who is no reviewer of
\* the OPEN pull request, which has reviewers, was refused with NotAssigned
ReassignRefusedNotAssigned ==
    /\ last.op = "ReassignReviewer"
    /\ last.err = "NotAssigned"
    /\ ~last.began
    /\ Open(db, last.arg.pr)
    /\ Known(db, last.arg.user)
    /\ Rows(db, last.arg.pr) # {}
    /\ last.arg.user \notin Rows(db, last.arg.pr)

\* C14: a ReassignReviewer(pr, old) on an OPEN pull request on which old has a
\* row, once committed, has removed that row, with or without a replacement;
\* when it returns without error the replacement it names is not old.
ReassignRemovesOld ==
    [][( /\ last'.op = "ReassignReviewer"
         /\ Open(db, last'.arg.pr)
         /\ last'.arg.user \in Rows(db, last'.arg.pr) )
       => /\ last'.err \in {"", "Internal"}
          /\ last'.err = "" => last'.committed /\ last'.ret.new # last'.arg.user
          /\ last'.committed => last'.arg.user \notin Rows(db', last'.arg.pr)
          /\ ~last'.committed => db' = db]_vars

\* a ReassignReviewer found no replacement and committed the removal: the
\* pull request is left with one reviewer fewer than the cap
ReassignRemovedWithoutReplacement ==
    /\ last.op = "ReassignReviewer"
    /\ last.err = ""
    /\ last.committed
    /\ last.ret.new = ""
    /\ Open(db, last.arg.pr)
    /\ last.arg.user \notin Rows(db, last.arg.pr)
    /\ Cardinality(Rows(db, last.arg.pr)) = maxReviewers - 1

\* the users that may replace old on pull request p: active members of the
\* author's team other than the author, old and the users with a row on p
Replacements(d, p, old) ==
    { u \in Teammates(d, d.prs[p].author) : u # old /\ u \notin Rows(d, p) }

\* C15: ReassignReviewer(pr, old) on an OPEN pull request on which old has a
\* row, when nobody can replace old, ends with the error NoCandidate (Internal
\* if a storage call fails) and not with success.
ReassignReportsNoCandidate ==
    [][( /\ last'.op = "ReassignReviewer"
         /\ Open(db, last'.arg.pr)
         /\ last'.arg.user \in Rows(db, last'.arg.pr)
         /\ Replacements(db, last'.arg.pr, last'.arg.user) = {} )
       => last'.err \in {"NoCandidate", "Internal"}]_vars

\* C16: a ReassignReviewer(pr, old) that returns without error on an OPEN pull
\* request on which old had a row names a replacement exactly when somebody
\* can replace old; the replacement is an active member of the author's team,
\* not the author, not old and had no row on pr, and the rows become the
\* previous rows with old replaced by it; with no replacement the returned id
\* is empty and the rows are the previous rows without old.
ReassignReplaces ==
    [][( /\ last'.op = "ReassignReviewer"
         /\ last'.err = ""
         /\ Open(db, last'.arg.pr)
         /\ last'.arg.user \in Rows(db, last'.arg.pr) )
       => LET p == last'.arg.pr
              old == last'.arg.user
              new == last'.ret.new
          IN  /\ (new = "") <=> (Replacements(db, p, old) = {})
              /\ new # "" =>
                    /\ new \in Replacements(db, p, old)
                    /\ Rows(db', p) = (Rows(db, p) \ {old}) \cup {new}
                    /\ Cardinality(Rows(db', p)) = Cardinality(Rows(db, p))
              /\ new = "" =>
                    /\ Rows(db', p) = Rows(db, p) \ {old}
                    /\ Cardinality(Rows(db', p)) = Cardinality(Rows(db, p)) - 1
              /\ last'.ret.revs = Rows(db', p)
              /\ \A q \in PrIds \ {p} : Rows(db', q) = Rows(db, q)]_vars

\* a ReassignReviewer replaced old by a teammate of the author: the pull
\* request is still at the cap, old is an active teammate without a row
ReassignReplaced ==
    /\ last.op = "ReassignReviewer"
    /\ last.err = ""
    /\ last.ret.new # ""
    /\ Open(db, last.arg.pr)
    /\ last.ret.new \in Rows(db, last.arg.pr)
    /\ last.arg.user \in Teammates(db, db.prs[last.arg.pr].author) \ Rows(db, last.arg.pr)
    /\ Cardinality(Rows(db, last.arg.pr)) = maxReviewers

\* C17: after an operation removed a reviewer in its open transaction, the
\* reviewer set it reads back (in ReassignReviewer and in the cascade of the
\* deactivations) does not contain the removed user.
RefetchSeesRemoval ==
    [][\A p \in Procs :
          ( /\ proc[p].pc \in {"current", "k_current"}
            /\ proc'[p] # proc[p]
            /\ proc'[p].err = "" )
          => LET removed == IF proc[p].pc = "current" THEN proc[p].arg.user
                            ELSE Head(proc[p].loc.users)
             IN  removed \notin proc'[p].loc.fetched]_vars

\* the operation that returned is a deactivation (of one user or of a team)
Deactivation(r) ==
    \/ r.op = "SetUserActiveStatus" /\ ~r.arg.active
    \/ r.op = "DeactivateTeamAndReassign"

\* OPEN pull request p had reviewers in d and all of them are inactive in e
LostAllReviewers(d, e, p) ==
    /\ Open(d, p)
    /\ Rows(d, p) # {}
    /\ \A u \in Rows(d, p) : ~e.users[u].active

\* the team of the author of pull request p is active
AuthorTeamActive(d, p) == d.teams[d.users[d.prs[p].author].team].active

\* C18: a SetUserActiveStatus(u, false) for a user that exists fails only if a
\* storage call fails; once it has committed, u is inactive and has no row on
\* any OPEN pull request.
DeactivatedUserReviewsNothing ==
    [][( /\ last'.op = "SetUserActiveStatus"
         /\ ~last'.arg.active
         /\ Known(db, last'.arg.user) )
       => /\ last'.err \in {"", "Internal"}
          /\ last'.err = "" => last'.committed
          /\ last'.committed =>
                /\ ~db'.users[last'.arg.user].active
                /\ \A p \in PrIds : Open(db', p) => last'.arg.user \notin Rows(db', p)]_vars

\* the second operation, SetUserActiveStatus(u, false), took u off an OPEN pull
\* request of a teammate, which keeps its other reviewer
DeactivatedReviewerRemoved ==
    /\ nops = 2
    /\ last.op = "SetUserActiveStatus"
    /\ ~last.arg.active
    /\ last.err = ""
    /\ ~db.users[last.arg.user].active
    /\ \E p \in PrIds :
          /\ Open(db, p)
          /\ db.users[db.prs[p].author].team = db.users[last.arg.user].team
          /\ Cardinality(Rows(db, p)) = maxReviewers - 1
          /\ last.arg.user \notin Rows(db, p)

\* C19: when a deactivation that succeeds takes every reviewer off an OPEN pull
\* request whose author's team is active and has K >= 1 active members other
\* than the author, the pull request ends with min(K, maxReviewers) reviewers,
\* all of them active members of the author's team.
DeactivationTopsUp ==
    [][( Deactivation(last') /\ last'.err = "" )
       => \A p \in PrIds :
             ( /\ LostAllReviewers(db, db', p)
               /\ AuthorTeamActive(db', p)
               /\ Teammates(db', db.prs[p].author) # {} )
             => /\ Rows(db', p) \subseteq Teammates(db', db.prs[p].author)
                /\ Cardinality(Rows(db', p)) =
                      Min(Cardinality(Teammates(db', db.prs[p].author)), maxReviewers)]_vars

\* C20: a deactivation never ends with NoCandidate: for a user or team that
\* exists it fails only if a storage call fails, and when it succeeds it has
\* committed, and every OPEN pull request that lost all its reviewers and
\* whose author's team is inactive, or has no active member besides the
\* author, is left with no reviewer.
DeactivationLeavesEmpty ==
    [][Deactivation(last')
       => /\ last'.err # "NoCandidate"
          /\ ( \/ Known(db, last'.arg.user)
               \/ last'.arg.team \in TeamIds /\ db.teams[last'.arg.team].exists )
             => last'.err \in {"", "Internal"}
          /\ last'.err = "" =>
                /\ last'.committed
                /\ \A p \in PrIds :
                      ( /\ LostAllReviewers(db, db', p)
                        /\ \/ ~AuthorTeamActive(db', p)
                           \/ Teammates(db', db.prs[p].author) = {} )
                      => Rows(db', p) = {}]_vars

\* the second operation, DeactivateTeamAndReassign, succeeded and left an OPEN
\* pull request of an author of the team without reviewers
DeactivationLeftEmpty ==
    /\ nops = 2
    /\ last.op = "DeactivateTeamAndReassign"
    /\ last.err = ""
    /\ last.committed
    /\ last.ret.ndeact > maxReviewers
    /\ \E p \in PrIds :
          /\ Open(db, p)
          /\ db.users[db.prs[p].author].team = last.arg.team
          /\ ~AuthorTeamActive(db, p)
          /\ Rows(db, p) = {}

\* the reviewers of pull request p as the open transaction of worker w sees them
RowsSeen(w, p) == Rows(TxView(db, proc[w].tx), p)

\* C21: a step of a deactivation's cascade adds rows to a pull request only
\* when, after the removals of that deactivation, the pull request has no
\* reviewer left, and the reassigned count grows by one exactly in such a
\* step: a pull request that keeps a reviewer gets no new one and is not
\* counted.
CascadeTopsUpOnlyEmpty ==
    [][\A w \in Procs :
          ( Deactivation(proc[w]) /\ proc'[w] # proc[w] /\ proc'[w].err = ""
            /\ proc[w].pc # "commit" )
          => LET added == proc'[w].tx.ins \ proc[w].tx.ins
             IN  /\ \A r \in added : RowsSeen(w, r[1]) = {}
                 /\ proc'[w].loc.count =
                       proc[w].loc.count + (IF added = {} THEN 0 ELSE 1)]_vars

\* a deactivation found a pull request without reviewers after its removal,
\* topped it up and committed
CascadeToppedUp ==
    \E w \in Procs :
        /\ Deactivation(proc[w])
        /\ proc[w].pc = "done"
        /\ proc[w].err = ""
        /\ proc[w].loc.count = 1
        /\ \E p \in PrIds : Open(db, p) /\ proc[w].loc.cands = Rows(db, p)

\* the users of team t in d
Members(d, t) == { u \in UserIds : d.users[u].exists /\ d.users[u].team = t }

\* C22 as stated: after DeactivateTeamAndReassign(team) has committed, the team
\* and every member are inactive and the deactivated-user count returned is
\* the number of members of the team.
TeamDeactivationCountsMembers ==
    [][( last'.op = "DeactivateTeamAndReassign" /\ last'.err = "" )
       => /\ ~db'.teams[last'.arg.team].active
          /\ \A u \in Members(db', last'.arg.team) : ~db'.users[u].active
          /\ last'.ret.ndeact = Cardinality(Members(db, last'.arg.team))]_vars

\* C22: after DeactivateTeamAndReassign(team) has committed, the team and
\* every member are inactive and the deactivated-user count returned is the
\* number of members that were active before the call.
TeamDeactivationCountsActive ==
    [][( last'.op = "DeactivateTeamAndReassign" /\ last'.err = "" )
       => /\ last'.committed
          /\ ~db'.teams[last'.arg.team].active
          /\ \A u \in Members(db', last'.arg.team) : ~db'.users[u].active
          /\ last'.ret.ndeact =
                Cardinality({ u \in Members(db, last'.arg.team) : db.users[u].active })]_vars

\* a team with a member that was inactive already was deactivated: the count
\* returned is positive and below the number of members
TeamDeactivatedWithInactiveMember ==
    /\ last.op = "DeactivateTeamAndReassign"
    /\ last.err = ""
    /\ last.ret.ndeact > 0
    /\ last.ret.ndeact < Cardinality(Members(db, last.arg.team))
    /\ \A u \in Members(db, last.arg.team) : ~db.users[u].active

\* the pull requests the open transaction of worker w has inserted rows for
ToppedUp(w) == { r[1] : r \in proc[w].tx.ins }

\* C23: the reassigned count DeactivateTeamAndReassign returns is the number
\* of distinct pull requests that got at least one new reviewer from the
\* operation: the count at the commit is the number of pull requests the
\* transaction inserted rows for, and that count is the one returned.
ReassignedCountsPRs ==
    [][\A w \in Procs :
          ( proc[w].op = "DeactivateTeamAndReassign" /\ proc'[w] # proc[w] )
          => /\ ( proc[w].pc = "commit" /\ proc'[w].committed )
                  => proc[w].loc.count = Cardinality(ToppedUp(w))
             /\ ( proc'[w].pc = "done" /\ proc'[w].err = "" )
                  => /\ proc'[w].ret.count = proc[w].loc.count
                     /\ proc[w].committed]_vars

\* a team deactivation that topped up one pull request returned the count 1
TeamDeactivationCountedOne ==
    \E w \in Procs :
        /\ proc[w].op = "DeactivateTeamAndReassign"
        /\ proc[w].pc = "done"
        /\ proc[w].err = ""
        /\ proc[w].ret.count = 1
        /\ \E p \in PrIds : Open(db, p) /\ Rows(db, p) = proc[w].loc.cands
                            /\ Rows(db, p) # {}

MoveChangesOnlyTeam ==
    [][( /\ last'.op = "MoveUserToTeam"
         /\ Known(db, last'.arg.user)
         /\ last'.arg.team \in TeamIds
         /\ db.teams[last'.arg.team].exists )
       => /\ IF db.users[last'.arg.user].active /\ db.teams[last'.arg.team].active
             THEN last'.err \in {"", "Internal"}
             ELSE last'.err \in {"Validation", "Internal"}
          /\ IF last'.err = ""
             THEN db' = [db EXCEPT !.users[last'.arg.user].team = last'.arg.team]
             ELSE db' = db]_vars

\* the second operation moved a reviewer of a teammate's OPEN pull request to
\* another team, and the reviewer still has the row
MovedReviewerKeepsRow ==
    /\ nops = 2
    /\ last.op = "MoveUserToTeam"
    /\ last.err = ""
    /\ \E p \in PrIds :
          /\ Open(db, p)
          /\ last.arg.user \in Rows(db, p)
          /\ db.users[last.arg.user].team = last.arg.team
          /\ db.users[db.prs[p].author].team # last.arg.team

\* C26: a deactivation (SetUserActiveStatus(u, false) or
\* DeactivateTeamAndReassign) is all or nothing: either it committed and
\* returns no error, or it returns an error and the committed rows (team and
\* user flags, assignment rows) are what they were before the call.
DeactivationAllOrNothing ==
    [][Deactivation(last')
       => \/ last'.err = "" /\ last'.committed
          \/ last'.err # "" /\ ~last'.committed /\ db' = db]_vars

\* a deactivation failed in the middle of its cascade, after it had written the
\* flag and removed a row: the reviewer is still active and still has the row
DeactivationFailedInCascade ==
    /\ Deactivation(last)
    /\ last.began
    /\ last.err = "Internal"
    /\ last.at \in {"k_current", "k_author", "k_team", "k_find", "k_assign"}
    /\ \E p \in PrIds :
          /\ Open(db, p)
          /\ \E u \in Rows(db, p) :
                /\ db.users[u].active
                /\ u = last.arg.user \/ db.users[u].team = last.arg.team

\* the rows the statement worker w is at inserts
Inserting(w) ==
    LET a == proc[w].arg
        l == proc[w].loc
    IN  IF proc[w].pc = "assign" /\ proc[w].op \in {"CreatePR", "ReassignReviewer"}
        THEN {<<a.pr, u>> : u \in l.cands}
        ELSE IF proc[w].pc = "assign" /\ proc[w].op = "AssignReviewer"
        THEN {<<a.pr, a.user>>}
        ELSE IF proc[w].pc = "k_assign"
        THEN {<<Head(l.prs), u>> : u \in l.cands}
        ELSE {}

\* C27: whatever the interleaving, no (pull request, user) row is stored twice:
\* an insert of a row the transaction already sees fails and the operation
\* rolls back everything it wrote, and no commit adds a row that is committed
\* already.
NoDuplicateRows ==
    [][\A w \in Procs :
          proc'[w] # proc[w]
          => /\ Inserting(w) \cap TxView(db, proc[w].tx).ra # {}
                  => /\ proc'[w].pc = "done"
                     /\ proc'[w].err = "Internal"
                     /\ proc'[w].tx = EmptyTx
                     /\ ~proc'[w].committed
                     /\ db' = db
             /\ ( proc[w].pc = "commit" /\ proc'[w].committed )
                  => proc[w].tx.ins \cap db.ra = {}]_vars

\* two workers assigned the same user to the same pull request: one committed
\* the row, the other failed at its insert and committed nothing
DuplicateInsertRolledBack ==
    \E w \in Procs, x \in Procs :
        /\ w # x
        /\ proc[w].op = "AssignReviewer" /\ proc[x].op = "AssignReviewer"
        /\ proc[w].arg = proc[x].arg
        /\ proc[w].pc = "done" /\ proc[x].pc = "done"
        /\ proc[w].err = "" /\ proc[w].committed
        /\ proc[x].err = "Internal" /\ proc[x].at = "assign" /\ ~proc[x].committed
        /\ <<proc[w].arg.pr, proc[w].arg.user>> \in db.ra

\* the workers run AssignReviewer or ReassignReviewer, if anything
OnlyAssignments ==
    \A w \in Procs : proc[w].op \in {"none", "AssignReviewer", "ReassignReviewer"}

\* C28: while AssignReviewer and ReassignReviewer operations run concurrently
\* on an OPEN pull request, with their data-access calls interleaved in any
\* way, the committed reviewers of that pull request never number more than
\* maxReviewers.
CapUnderConcurrency ==
    OnlyAssignments
    => \A p \in PrIds : Open(db, p) => Cardinality(Rows(db, p)) <= maxReviewers

\* C29: an AssignReviewer or ReassignReviewer that was past its status check
\* when a MergePR of the same pull request committed does not commit: no such
\* operation commits while the pull request is MERGED.
NoCommitOnMerged ==
    [][\A w \in Procs :
          ( /\ proc[w].op \in {"AssignReviewer", "ReassignReviewer"}
            /\ proc[w].pc = "commit"
            /\ proc'[w].committed )
          => ~Merged(db, proc[w].arg.pr)]_vars

\* the active users of team t in d other than a and other than those of X
Pickable(d, t, a, X) ==
    { u \in UserIds : /\ d.users[u].exists
                      /\ d.users[u].active
                      /\ d.users[u].team = t
                      /\ u # a
                      /\ u \notin X }

\* C30: FindReviewCandidates(teamID, authorID, excludeIDs, limit) fails only
\* if the storage call fails; otherwise it returns a set of users, all of them
\* active users of teamID other than authorID and outside excludeIDs, and
\* exactly min(limit, number of such users) of them, an empty or short set
\* included (rows of a SELECT over users: a set, no user twice).
FindCandidatesExact ==
    \A w \in Procs :
        ( proc[w].op = "FindReviewCandidates" /\ proc[w].pc = "done" )
        => LET l == proc[w].loc
               E == Pickable(db, l.team, l.author, l.excludeUserIDs)
               n == Cardinality(E)
           IN  /\ proc[w].err \in {"", "Internal"}
               /\ proc[w].err = ""
                    => /\ l.cands \subseteq E
                       /\ Cardinality(l.cands) = IF l.atMost < n THEN l.atMost ELSE n

\* the query returned fewer users than the limit, one of them excluded and
\* one inactive staying out, and no error
FoundFewerThanLimit ==
    /\ proc[1].op = "FindReviewCandidates"
    /\ proc[1].pc = "done"
    /\ proc[1].err = ""
    /\ Cardinality(proc[1].loc.cands) = 1
    /\ proc[1].loc.atMost = 2
    /\ \E x \in proc[1].loc.excludeUserIDs :
          db.users[x].active /\ db.users[x].team = proc[1].loc.team
    /\ \E y \in UserIds \ proc[1].loc.excludeUserIDs :
          /\ db.users[y].exists /\ ~db.users[y].active
          /\ db.users[y].team = proc[1].loc.team
          /\ y # proc[1].loc.author

\* the pull requests of status st user u has a row on
Reviews(d, u, st) ==
    { p \in PrIds : d.prs[p].exists /\ d.prs[p].status = st /\ u \in Rows(d, p) }

\* C31: GetStats reports, for every user with an assignment row (and for no
\* other), the number of that user's rows over pull requests of any status,
\* which is the user's open-review count plus merged-review count, the values
\* GetOpenReviewCountForUser and GetMergedReviewCountForUser report; a MergePR
\* moves one review of each reviewer of the pull request from open to merged
\* and leaves every total as it was.
StatsCountAllRows ==
    [][/\ ( last'.op = "GetStats" /\ last'.err = "" )
          => /\ \A u \in UserIds :
                   LET n == Cardinality({ p \in PrIds : u \in Rows(db, p) })
                   IN  /\ n > 0 => <<u, n>> \in last'.ret.stats
                       /\ n = Cardinality(Reviews(db, u, StatusOpen))
                              + Cardinality(Reviews(db, u, StatusMerged))
             /\ \A i \in last'.ret.stats :
                   i[2] = Cardinality({ p \in PrIds : i[1] \in Rows(db, p) }) /\ i[2] > 0
       /\ ( last'.op = "GetOpenReviewCountForUser" /\ last'.err = "" )
          => last'.ret.count = Cardinality(Reviews(db, last'.arg.user, StatusOpen))
       /\ ( last'.op = "GetMergedReviewCountForUser" /\ last'.err = "" )
          => last'.ret.count = Cardinality(Reviews(db, last'.arg.user, StatusMerged))
       /\ ( last'.op = "MergePR" /\ last'.err = "" )
          => \A u \in UserIds :
                LET k == IF u \in Rows(db, last'.arg.pr) THEN 1 ELSE 0
                IN  /\ Cardinality(Reviews(db', u, StatusOpen))
                          = Cardinality(Reviews(db, u, StatusOpen)) - k
                    /\ Cardinality(Reviews(db', u, StatusMerged))
                          = Cardinality(Reviews(db, u, StatusMerged)) + k]_vars

\* GetStats reported a review of a user whose pull request is MERGED
StatsCountedMergedReview ==
    /\ last.op = "GetStats"
    /\ last.err = ""
    /\ \E i \in last.ret.stats :
          /\ i[2] = 1
          /\ Reviews(db, i[1], StatusMerged) # {}
          /\ Reviews(db, i[1], StatusOpen) = {}

\* C32: a ReassignReviewer that fails at the insert of the replacement row or
\* at the commit returns the error with nothing committed: the removal of the
\* old reviewer is rolled back and the committed rows are what they were.
ReassignFailureRestores ==
    [][( /\ last'.op = "ReassignReviewer"
         /\ last'.err # ""
         /\ last'.at \in {"assign", "commit"} )
       => /\ db' = db
          /\ ~last'.committed]_vars

\* a ReassignReviewer failed at the insert of a replacement that exists: the
\* old reviewer still has the row
ReassignFailedAtInsert ==
    /\ last.op = "ReassignReviewer"
    /\ last.began
    /\ last.err = "Internal"
    /\ last.at = "assign"
    /\ Open(db, last.arg.pr)
    /\ last.arg.user \in Rows(db, last.arg.pr)
    /\ Replacements(db, last.arg.pr, last.arg.user) # {}

\* the users the operation of worker w selected as reviewers
Selected(w) ==
    IF proc[w].op = "AssignReviewer" THEN {proc[w].arg.user}
    ELSE IF proc[w].op \in {"CreatePR", "ReassignReviewer"} THEN proc[w].loc.cands
    ELSE {}

\* C33: once an operation that selected user u as a reviewer and a concurrent
\* deactivation (of u or of a team) have both finished, u is not an inactive
\* reviewer of an OPEN pull request in the committed rows.
SelectedReviewerStaysActive ==
    \A w \in Procs, x \in Procs :
        ( /\ w # x
          /\ proc[w].pc = "done"
          /\ proc[x].pc = "done"
          /\ Deactivation(proc[x]) )
        => \A u \in Selected(w) :
              \A p \in PrIds : ( Open(db, p) /\ u \in Rows(db, p) ) => db.users[u].active

\* C34: of two concurrent MergePR calls on the same OPEN pull request only one
\* succeeds: when one has returned without error the other has failed, with
\* PRMerged (Internal if a storage call failed).
MergeSucceedsOnce ==
    \A w \in Procs, x \in Procs :
        ( /\ w # x
          /\ proc[w].op = "MergePR" /\ proc[x].op = "MergePR"
          /\ proc[w].arg.pr = proc[x].arg.pr
          /\ proc[w].pc = "done" /\ proc[x].pc = "done"
          /\ proc[w].err = "" )
        => proc[x].err \in {"PRMerged", "Internal"}

\* C35: a MergePR of an OPEN pull request fails only if a storage call fails;
\* when it succeeds the committed rows differ from those before in the status
\* of that pull request alone (its assignment rows, the other pull requests,
\* the users and the teams are as they were); when it fails nothing changed.
MergeChangesOnlyStatus ==
    [][( last'.op = "MergePR" /\ Open(db, last'.arg.pr) )
       => /\ last'.err \in {"", "Internal"}
          /\ IF last'.err = ""
             THEN db' = [db EXCEPT !.prs[last'.arg.pr].status = StatusMerged]
             ELSE db' = db]_vars

\* a pull request with reviewers was merged while another one is OPEN
MergedWithReviewers ==
    /\ last.op = "MergePR"
    /\ last.err = ""
    /\ Merged(db, last.arg.pr)
    /\ Rows(db, last.arg.pr) # {}
    /\ \E p \in PrIds : Open(db, p) /\ Rows(db, p) # {}

\* C36: whatever operations have completed, every member of an inactive team
\* is inactive.
InactiveTeamHasNoActiveMember ==
    \A t \in TeamIds :
        ( db.teams[t].exists /\ ~db.teams[t].active )
        => \A u \in Members(db, t) : ~db.users[u].active

\* the usernames of a list
Listed(names) == { names[i] : i \in 1..Len(names) }

\* the call CreateTeam(name, names) can succeed on the rows d: the name and
\* the usernames are given, free and pairwise different
Creatable(d, name, names) ==
    /\ name \in TeamIds
    /\ ~d.teams[name].exists
    /\ \A i \in 1..Len(names) :
          /\ names[i] \in UserIds
          /\ ~d.users[names[i]].exists
          /\ \A j \in 1..Len(names) : names[j] = names[i] => j = i

\* C37: CreateTeam(name, usernames) is all-or-nothing.  The committed rows
\* change only when the call succeeds, and then exactly so: the team did not
\* exist and is now active, every listed username was free and is now an
\* active member of the team, and no other row changed.  A call that returns
\* an error has changed no row: a name already taken gives TeamExists, an empty
\* team name or username gives Validation, a username in use gives an error.
CreateTeamAllOrNothing ==
    [][ proc[1].op = "CreateTeam" =>
        LET name == proc[1].arg.team
            names == proc[1].loc.userNames
            err == proc'[1].err
        IN  /\ db' # db =>
                 /\ proc'[1].pc # "done"
                 /\ Creatable(db, name, names)
                 /\ db'.teams[name].exists /\ db'.teams[name].active
                 /\ \A t \in TeamIds \ {name} : db'.teams[t] = db.teams[t]
                 /\ Members(db', name) = Listed(names)
                 /\ \A u \in Listed(names) : db'.users[u].active
                 /\ \A u \in UserIds \ Listed(names) : db'.users[u] = db.users[u]
                 /\ db'.prs = db.prs /\ db'.ra = db.ra
            /\ ( proc[1].pc # "done" /\ proc'[1].pc = "done" ) =>
                 /\ db' = db
                 /\ err = "" =>
                       /\ db.teams[name].exists /\ db.teams[name].active
                       /\ Members(db, name) = Listed(names)
                       /\ \A u \in Listed(names) : db.users[u].active
                 /\ err # "" /\ Creatable(db, name, names) => err = "Internal"
                 /\ name = "" => err = "Validation"
                 /\ ( name # "" /\ db.teams[name].exists /\ err # "" )
                       => err \in {"TeamExists", "Internal"}
                 /\ ( name # "" /\ ~db.teams[name].exists /\ err # ""
                      /\ ~Creatable(db, name, names) )
                       => err \in {"Validation", "Internal"} ]_vars

\* CreateTeam inserted the team and a first member, failed at a second
\* username that is in use, and returned with neither created
CreateTeamFailedAtSecondMember ==
    /\ proc[1].op = "CreateTeam"
    /\ proc[1].pc = "done"
    /\ proc[1].err = "Validation"
    /\ proc[1].at = "loop"
    /\ Len(proc[1].loc.userNames) = 2
    /\ proc[1].arg.team \in TeamIds
    /\ proc[1].loc.userNames[1] \in UserIds
    /\ ~db.teams[proc[1].arg.team].exists
    /\ ~db.users[proc[1].loc.userNames[1]].exists
    /\ db.users[proc[1].loc.userNames[2]].exists

\* the operation of worker w has returned with its unit of work closed: no
\* write is pending, and a transaction that was begun was committed unless
\* the operation returned an error (its rollback)
Closed(w) ==
    /\ proc[w].tx = EmptyTx
    /\ proc[w].committed => proc[w].began
    /\ ( proc[w].began /\ proc[w].err = "" ) => proc[w].committed

\* C38: every operation terminates and closes its unit of work.  An operation
\* in flight eventually returns, and when it has returned its transaction, if
\* one was begun, has been committed or rolled back: never both, never neither,
\* and no write is left pending.
OperationsTerminateClosed ==
    \A w \in Procs :
        /\ [](proc[w].pc = "done" => Closed(w))
        /\ (proc[w].pc \notin {"idle", "done"}) ~> (proc[w].pc = "done")

\* a team deactivation whose cascade took both reviewers off pull request 1
\* has returned after its commit, next to an operation that was rolled back
CascadeReturnedNextToRollback ==
    \E w \in Procs, v \in Procs :
        /\ proc[w].pc = "done"
        /\ proc[w].op = "DeactivateTeamAndReassign"
        /\ proc[w].committed
        /\ proc[w].ret.ndeact >= 2
        /\ Rows(db, 1) = {}
        /\ proc[v].pc = "done"
        /\ proc[v].began /\ ~proc[v].committed /\ proc[v].err # ""

====
